---------------------------- MODULE Spec2Model ----------------------------
(***************************************************************************)
(* A model of go-enum (src/main.go): the generator that turns the          *)
(* constants of an integer type into String / Valid / MarshalText / Set /  *)
(* UnmarshalText methods, and of the methods it generates.                 *)
(*                                                                         *)
(* Numbers.  Value.value is a uint64 bit pattern (main.go:510).  TLC's     *)
(* integers are 32 bits wide, so a uint64 is modelled as four 16-bit       *)
(* limbs, least significant first: <<l0, l1, l2, l3>> stands for           *)
(* l0 + l1*2^16 + l2*2^32 + l3*2^48.  A value of the enum type T is kept   *)
(* the way the generator keeps it: as the uint64 it converts to (sign      *)
(* extended for signed kinds), so int64(i) and uint64(i) are the identity  *)
(* on the pattern and only the reading of the top bit differs.             *)
(*                                                                         *)
(* Text.  A Go string is a sequence of one-character strings (bytes), so   *)
(* that slicing name[lo:hi] and len(s) are what the code computes.         *)
(***************************************************************************)
EXTENDS Integers, Sequences, FiniteSets, TLC

\* ------------------------------------------------------------------------
\* 64-bit arithmetic on limbs
\* ------------------------------------------------------------------------

\* 2^16, the limb base of the uint64 representation.
LimbBase == 2 ^ 16

Zero64 == <<0, 0, 0, 0>>
One64 == <<1, 0, 0, 0>>

\* uint64(n) for a small natural n (n < 2^31).
U64(n) == <<n % LimbBase, n \div LimbBase, 0, 0>>

\* a + b in uint64 arithmetic (wraps at 2^64).
Add64(a, b) ==
    LET s1 == a[1] + b[1]
        s2 == a[2] + b[2] + (s1 \div LimbBase)
        s3 == a[3] + b[3] + (s2 \div LimbBase)
        s4 == a[4] + b[4] + (s3 \div LimbBase)
    IN  <<s1 % LimbBase, s2 % LimbBase, s3 % LimbBase, s4 % LimbBase>>

\* ^a, the bitwise complement.
Not64(a) == <<LimbBase - 1 - a[1], LimbBase - 1 - a[2],
              LimbBase - 1 - a[3], LimbBase - 1 - a[4]>>

\* -a in two's complement.
Neg64(a) == Add64(Not64(a), One64)

\* a - b in uint64 arithmetic (wraps at 2^64).
Sub64(a, b) == Add64(a, Neg64(b))

\* uint64(int64(n)) for a small integer n, negative or not.
I64(n) == IF n < 0 THEN Neg64(U64(-n)) ELSE U64(n)

\* 2^k as a uint64, 0 <= k <= 63.
Pow2x64(k) ==
    LET RECURSIVE pw(_)
        pw(e) == IF e = 0 THEN 1 ELSE 2 * pw(e - 1)
    IN  [j \in 1..4 |-> IF j = (k \div 16) + 1 THEN pw(k % 16) ELSE 0]

\* a < b, both read as uint64.
LessU64(a, b) ==
    \/ a[4] < b[4]
    \/ a[4] = b[4] /\ a[3] < b[3]
    \/ a[4] = b[4] /\ a[3] = b[3] /\ a[2] < b[2]
    \/ a[4] = b[4] /\ a[3] = b[3] /\ a[2] = b[2] /\ a[1] < b[1]

\* The sign bit (bit 63) of the pattern: int64(a) < 0.
IsNeg64(a) == a[4] >= LimbBase \div 2

\* a < b, both read as int64: the order of the patterns with the sign bit flipped.
LessI64(a, b) ==
    LET flip(x) == <<x[1], x[2], x[3], (x[4] + LimbBase \div 2) % LimbBase>>
    IN  LessU64(flip(a), flip(b))

\* ------------------------------------------------------------------------
\* strconv.FormatUint / strconv.FormatInt, base 10
\* ------------------------------------------------------------------------

Digit(d) == <<"0", "1", "2", "3", "4", "5", "6", "7", "8", "9">>[d + 1]

\* <<a div 10, a mod 10>> by long division over the limbs, most significant first.
DivMod10(a) ==
    LET n4 == a[4]
        n3 == (n4 % 10) * LimbBase + a[3]
        n2 == (n3 % 10) * LimbBase + a[2]
        n1 == (n2 % 10) * LimbBase + a[1]
    IN  << <<n1 \div 10, n2 \div 10, n3 \div 10, n4 \div 10>>, n1 % 10 >>

RECURSIVE FormatUint(_)
FormatUint(a) ==
    LET qr == DivMod10(a)
    IN  IF qr[1] = Zero64 THEN <<Digit(qr[2])>>
        ELSE FormatUint(qr[1]) \o <<Digit(qr[2])>>

\* strconv.FormatInt(int64(a), 10): the pattern read as a signed 64-bit integer.
FormatInt(a) ==
    IF IsNeg64(a) THEN <<"-">> \o FormatUint(Neg64(a)) ELSE FormatUint(a)

\* ------------------------------------------------------------------------
\* Integer kinds (go/types BasicKind) and the enum type's arithmetic
\* ------------------------------------------------------------------------

SignedKinds == {"Int", "Int8", "Int16", "Int32", "Int64"}
UnsignedKinds == {"Uint", "Uint8", "Uint16", "Uint32", "Uint64", "Uintptr"}
IntegerKinds == SignedKinds \cup UnsignedKinds

\* info&types.IsUnsigned == 0 (main.go:616).
IsSigned(kind) == kind \in SignedKinds

\* The width in bits of a kind; int, uint and uintptr have the word's width
\* (unsafe.Sizeof(int(0)), in bytes).
Bits(kind, wordBytes) ==
    CASE kind \in {"Int8", "Uint8"} -> 8
      [] kind \in {"Int16", "Uint16"} -> 16
      [] kind \in {"Int32", "Uint32"} -> 32
      [] kind \in {"Int64", "Uint64"} -> 64
      [] OTHER -> 8 * wordBytes

\* math.MinInt<w> as uint64(int64), math.MaxInt<w>, math.MaxUint<w>.
MinInt(w) == Neg64(Pow2x64(w - 1))
MaxInt(w) == Sub64(Pow2x64(w - 1), One64)
MaxUint(w) == IF w = 64 THEN Not64(Zero64) ELSE Sub64(Pow2x64(w), One64)

\* typeMinMax: <<min, max>> of the kind, as uint64 patterns.
typeMinMax(kind, wordBytes) ==
    CASE kind = "Int" ->
            IF wordBytes = 8 THEN <<MinInt(64), MaxInt(64)>>
            ELSE <<MinInt(32), MaxInt(32)>>
      [] kind = "Int8" -> <<MinInt(8), MaxInt(8)>>
      [] kind = "Int16" -> <<MinInt(16), MaxInt(16)>>
      [] kind = "Int32" -> <<MinInt(32), MaxInt(32)>>
      [] kind = "Int64" -> <<MinInt(64), MaxInt(64)>>
      [] kind = "Uint8" -> <<Zero64, MaxUint(8)>>
      [] kind = "Uint16" -> <<Zero64, MaxUint(16)>>
      [] kind = "Uint32" -> <<Zero64, MaxUint(32)>>
      [] kind = "Uint64" -> <<Zero64, MaxUint(64)>>
      [] kind \in {"Uint", "Uintptr"} ->
            IF wordBytes = 8 THEN <<Zero64, MaxUint(64)>>
            ELSE <<Zero64, MaxUint(32)>>

\* The result of an arithmetic operation of type T, whose exact result has the
\* low 64 bits a: the low Bits(kind) bits, sign extended for a signed kind and
\* zero extended otherwise (Go's wrap-around at the type's width).
WrapT(kind, wordBytes, a) ==
    LET w == Bits(kind, wordBytes)
        full == LimbBase - 1
        neg8 == IsSigned(kind) /\ (a[1] % 256) >= 128
        neg16 == IsSigned(kind) /\ a[1] >= LimbBase \div 2
        neg32 == IsSigned(kind) /\ a[2] >= LimbBase \div 2
    IN  CASE w = 8 ->
                IF neg8 THEN <<(a[1] % 256) + (LimbBase - 256), full, full, full>>
                ELSE <<a[1] % 256, 0, 0, 0>>
          [] w = 16 -> IF neg16 THEN <<a[1], full, full, full>> ELSE <<a[1], 0, 0, 0>>
          [] w = 32 -> IF neg32 THEN <<a[1], a[2], full, full>> ELSE <<a[1], a[2], 0, 0>>
          [] OTHER -> a

\* a < b for two values of type T.
LessT(kind, a, b) == IF IsSigned(kind) THEN LessI64(a, b) ELSE LessU64(a, b)

\* An index (a small non-negative value of T) as a natural number.
ToNat(a) == a[1] + a[2] * LimbBase

\* ------------------------------------------------------------------------
\* Strings
\* ------------------------------------------------------------------------

\* s[lo:hi] of Go, for 0 <= lo <= hi <= len(s).
GoSlice(s, lo, hi) == SubSeq(s, lo + 1, hi)

HasPrefix(s, prefix) ==
    Len(s) >= Len(prefix) /\ SubSeq(s, 1, Len(prefix)) = prefix

\* strings.TrimPrefix
TrimPrefix(s, prefix) ==
    IF HasPrefix(s, prefix) THEN SubSeq(s, Len(prefix) + 1, Len(s)) ELSE s

\* strings.TrimSpace, with the blank and the newline as the white space of the
\* model's alphabet.
RECURSIVE TrimLeft(_)
TrimLeft(s) ==
    IF s # <<>> /\ s[1] \in {" ", "\n"} THEN TrimLeft(Tail(s)) ELSE s
RECURSIVE TrimRight(_)
TrimRight(s) ==
    IF s # <<>> /\ s[Len(s)] \in {" ", "\n"} THEN TrimRight(SubSeq(s, 1, Len(s) - 1))
    ELSE s
TrimSpace(s) == TrimRight(TrimLeft(s))

\* ast.CommentGroup.Text for a group of // comments: each comment's text and a
\* newline.
RECURSIVE CommentText(_)
CommentText(list) ==
    IF list = <<>> THEN <<>> ELSE list[1] \o <<"\n">> \o CommentText(Tail(list))

RECURSIVE Flatten(_)
Flatten(ss) ==
    IF Len(ss) = 0 THEN <<>>
    ELSE IF Len(ss) = 1 THEN ss[1]
    ELSE Flatten(SubSeq(ss, 1, Len(ss) \div 2))
         \o Flatten(SubSeq(ss, Len(ss) \div 2 + 1, Len(ss)))

\* ------------------------------------------------------------------------
\* Collecting the constants: File.genDecl
\* ------------------------------------------------------------------------
\* A const declaration is a sequence of ValueSpecs.  A ValueSpec is a record
\*   type    : "" when vspec.Type is nil, "*" for a type expression that is no
\*             identifier, and the identifier's name otherwise;
\*   call    : "" when the spec has no values, "-" when its first value is not
\*             a call of an identifier, and that identifier's name otherwise;
\*   names   : the constants it declares, each with what the type checker
\*             knows of it: [name, kind, value];
\*   comment : the line comment group, a sequence of comment texts (<<>>: nil).

\* Lines 550-581: the remembered type after this spec, and whether its names
\* are collected.
SpecType(spec, typ, typeName) ==
    IF spec.type = "" /\ spec.call # ""
    THEN IF spec.call = "-" THEN [typ |-> "", collect |-> FALSE]
         ELSE [typ |-> spec.call, collect |-> spec.call = typeName]
    ELSE IF spec.type # ""
    THEN IF spec.type = "*" THEN [typ |-> typ, collect |-> FALSE]
         ELSE [typ |-> spec.type, collect |-> spec.type = typeName]
    ELSE [typ |-> typ, collect |-> typ = typeName]

\* Lines 613-624: the Value of one constant of a spec.
MakeValue(obj, comment, trimPrefix, lineComment) ==
    [originalName |-> obj.name,
     name |-> IF lineComment /\ comment # <<>> /\ Len(comment) = 1
              THEN TrimSpace(CommentText(comment))
              ELSE TrimPrefix(obj.name, trimPrefix),
     value |-> obj.value,
     signed |-> IsSigned(obj.kind),
     kind |-> obj.kind]

\* Lines 585-626: the names of one spec, "_" skipped.
RECURSIVE SpecValues(_, _, _, _)
SpecValues(names, comment, trimPrefix, lineComment) ==
    IF names = <<>> THEN <<>>
    ELSE (IF names[1].name = <<"_">> THEN <<>>
          ELSE <<MakeValue(names[1], comment, trimPrefix, lineComment)>>)
         \o SpecValues(Tail(names), comment, trimPrefix, lineComment)

\* genDecl on one const declaration, from the remembered type typ.
RECURSIVE genDeclFrom(_, _, _, _, _)
genDeclFrom(specs, typ, typeName, trimPrefix, lineComment) ==
    IF specs = <<>> THEN <<>>
    ELSE LET st == SpecType(specs[1], typ, typeName)
         IN  (IF st.collect
              THEN SpecValues(specs[1].names, specs[1].comment, trimPrefix, lineComment)
              ELSE <<>>)
             \o genDeclFrom(Tail(specs), st.typ, typeName, trimPrefix, lineComment)

genDecl(decl, typeName, trimPrefix, lineComment) ==
    genDeclFrom(decl, "", typeName, trimPrefix, lineComment)

\* ast.Inspect(file.file, file.genDecl): every const declaration of the file.
RECURSIVE fileValues(_, _, _, _)
fileValues(decls, typeName, trimPrefix, lineComment) ==
    IF decls = <<>> THEN <<>>
    ELSE genDecl(decls[1], typeName, trimPrefix, lineComment)
         \o fileValues(Tail(decls), typeName, trimPrefix, lineComment)

\* Lines 596-599: a collected constant whose underlying type is no integer.
NonInteger(values) == \E i \in 1..Len(values) : values[i].kind \notin IntegerKinds

\* ------------------------------------------------------------------------
\* checkForDuplicateValues, checkForDuplicateStrings
\* ------------------------------------------------------------------------

\* checkForDuplicateValues that compares only neighbours of the unsorted list.
checkForDuplicateValuesNeighbours(values) ==
    \E i \in 1..(Len(values) - 1) : values[i].value = values[i + 1].value

checkForDuplicateValues(values) ==
    \E i, j \in 1..Len(values) : i < j /\ values[i].value = values[j].value

\* checkForDuplicateStrings on the names of the constants, not on their
\* display names.
checkForDuplicateStringsOriginal(values) ==
    \E i, j \in 1..Len(values) : i < j /\ values[i].originalName = values[j].originalName

checkForDuplicateStrings(values) ==
    \E i, j \in 1..Len(values) : i < j /\ values[i].name = values[j].name

\* ------------------------------------------------------------------------
\* splitIntoRuns
\* ------------------------------------------------------------------------

\* byValue.Less that compares every value as unsigned.
LessUnsigned(a, b) == LessU64(a.value, b.value)

\* byValue.Less
Less(a, b) ==
    IF a.signed THEN LessI64(a.value, b.value) ELSE LessU64(a.value, b.value)

\* sort.Stable(byValue(values)): the constant i goes behind the constants
\* that are less than it and behind those before it that are not greater, so
\* equal elements keep their order.
SortStable(values) ==
    LET n == Len(values)
        behind(i) == {j \in 1..n : IF Less(values[j], values[i]) THEN TRUE
                                   ELSE j < i /\ ~Less(values[i], values[j])}
        rank == SubSeq([i \in 1..n |-> Cardinality(behind(i)) + 1], 1, n)
    IN  [r \in 1..n |-> values[CHOOSE i \in 1..n : rank[i] = r]]

\* Dedup that removes nothing.
DedupNothing(values) == values

\* Dedup that keeps the last of equal neighbours.
DedupKeepsLast(values) ==
    LET keep(i) == i = Len(values) \/ values[i].value # values[i + 1].value
        RECURSIVE from(_)
        from(i) == IF i > Len(values) THEN <<>>
                   ELSE (IF keep(i) THEN <<values[i]>> ELSE <<>>) \o from(i + 1)
    IN  from(1)

\* Lines 456-463: of equal neighbours the first is kept.
Dedup(values) ==
    LET keep(i) == IF i = 1 THEN TRUE ELSE values[i].value # values[i - 1].value
        kept == SelectSeq([i \in 1..Len(values) |-> i], keep)
    IN  [k \in 1..Len(kept) |-> values[kept[k]]]

\* Lines 467-470: the length of the contiguous sequence values starts with.
RunLen(values, i) ==
    LET stops == {j \in i..Len(values) :
                    IF j = Len(values) THEN TRUE
                    ELSE values[j + 1].value # Add64(values[j].value, One64)}
    IN  CHOOSE j \in stops : \A k \in stops : j <= k

\* Lines 464-474.
RECURSIVE SplitRuns(_)
SplitRuns(values) ==
    IF values = <<>> THEN <<>>
    ELSE LET i == RunLen(values, 1)
         IN  <<SubSeq(values, 1, i)>> \o SplitRuns(SubSeq(values, i + 1, Len(values)))

splitIntoRuns(values) == SplitRuns(Dedup(SortStable(values)))

\* ------------------------------------------------------------------------
\* The name and index declarations
\* ------------------------------------------------------------------------

\* usize with the limit of uint8 one too high.
usizeInclusive(n) == IF n <= 256 THEN 8 ELSE IF n < 65536 THEN 16 ELSE 32

\* usize
usize(n) == IF n < 256 THEN 8 ELSE IF n < 65536 THEN 16 ELSE 32

\* The names of a run, in order.
RunNames(run) == [i \in 1..Len(run) |-> run[i].name]

\* Lines 684-688: indexes[i] = b.Len() after the i-th name is written.
Cumulative(names, n) ==
    [i \in 1..Len(names) |-> n + Len(Flatten(SubSeq(names, 1, i)))]

\* createIndexAndNameDecl: the name constant, the index array ("{0, " and then
\* the indexes) and the width of its elements.
createIndexAndNameDecl(run) ==
    LET name == Flatten(RunNames(run))
    IN  [name |-> name,
         index |-> <<0>> \o Cumulative(RunNames(run), 0),
         bits |-> usize(Len(name))]

\* ------------------------------------------------------------------------
\* The generated declarations of one type
\* ------------------------------------------------------------------------
\* What generate emits for a type is kept as a record, the plan:
\*   names    : the name constants; id 0 is _T_name, id k >= 1 is _T_name_<k-1>;
\*   indexes  : the index arrays, by the same ids (no array for a run of one);
\*   strategy : "OneRun", "MultipleRuns" or "Map", the shape of String, Valid
\*              and MarshalText;
\*   first, offset, lessThanZero : the arguments of the one-run templates;
\*   cases    : the cases of the multiple-runs switch, in order;
\*   map      : the entries of _T_map, in order;
\*   decode   : "Switch" or "Map", and entries, the cases of the Set switch or
\*              the entries of _T_lookup_map, in order.

\* buildOneRun
buildOneRun(runs) ==
    LET values == runs[1]
        decl == createIndexAndNameDecl(values)
    IN  [strategy |-> "OneRun",
         names |-> [id \in {0} |-> decl.name],
         indexes |-> [id \in {0} |-> decl.index],
         bits |-> [id \in {0} |-> decl.bits],
         first |-> values[1].value,
         offset |-> values[1].value # Zero64,
         lessThanZero |-> values[1].signed,
         cases |-> <<>>,
         map |-> <<>>]

\* Lines 826-843 and 858-868: the case of one run in the switch of String and
\* of Valid.
RunCase(values, id) ==
    [id |-> id,
     cond |-> IF Len(values) = 1 THEN "eq"
              ELSE IF values[1].value = Zero64 /\ ~values[1].signed THEN "le"
              ELSE "range",
     first |-> values[1].value,
     last |-> values[Len(values)].value,
     subtract |-> values[1].value # Zero64]

\* buildMultipleRuns with declareIndexAndNameVars
buildMultipleRuns(runs) ==
    LET decl(k) == createIndexAndNameDecl(runs[k])
        indexed == {k \in 1..Len(runs) : Len(runs[k]) # 1}
    IN  [strategy |-> "MultipleRuns",
         names |-> [id \in 1..Len(runs) |-> decl(id).name],
         indexes |-> [id \in indexed |-> decl(id).index],
         bits |-> [id \in indexed |-> decl(id).bits],
         first |-> Zero64,
         offset |-> FALSE,
         lessThanZero |-> FALSE,
         cases |-> [k \in 1..Len(runs) |-> RunCase(runs[k], k)],
         map |-> <<>>]

\* SliceEntries with "n += len(value.name)" forgotten.
SliceEntriesStuck(values, id, n) ==
    [i \in 1..Len(values) |->
        [id |-> id, whole |-> FALSE, lo |-> n, hi |-> n + Len(values[i].name),
         value |-> values[i].value]]

\* Lines 906-912: the entries value: _T_name[n:n+len(name)], n running over
\* all runs.
SliceEntries(values, id, n) ==
    LET ends == <<n>> \o Cumulative([i \in 1..Len(values) |-> values[i].name], n)
    IN  [i \in 1..Len(values) |->
            [id |-> id, whole |-> FALSE, lo |-> ends[i], hi |-> ends[i + 1],
             value |-> values[i].value]]

\* buildMap with declareNameVars
buildMap(runs) ==
    [strategy |-> "Map",
     names |-> [id \in {0} |-> Flatten(RunNames(Flatten(runs)))],
     indexes |-> <<>>,
     bits |-> <<>>,
     first |-> Zero64,
     offset |-> FALSE,
     lessThanZero |-> FALSE,
     cases |-> <<>>,
     map |-> SliceEntries(Flatten(runs), 0, 0)]

\* The crossover of generate: more runs than this and String uses a map.
MaxSwitchRuns == 10

\* buildString with "len(runs) < 10" for "len(runs) <= 10".
buildStringStrict(runs) ==
    IF Len(runs) = 1 THEN buildOneRun(runs)
    ELSE IF Len(runs) < MaxSwitchRuns THEN buildMultipleRuns(runs)
    ELSE buildMap(runs)

\* Lines 373-382 of generate.
buildString(runs) ==
    IF Len(runs) = 1 THEN buildOneRun(runs)
    ELSE IF Len(runs) <= MaxSwitchRuns THEN buildMultipleRuns(runs)
    ELSE buildMap(runs)

\* countValues
RECURSIVE countValues(_)
countValues(runs) ==
    IF runs = <<>> THEN 0 ELSE Len(runs[1]) + countValues(Tail(runs))

\* Lines 1011-1035: the cases of the Set and UnmarshalText switches.
RECURSIVE SwitchEntriesMulti(_, _)
SwitchEntriesMulti(runs, k) ==
    IF k > Len(runs) THEN <<>>
    ELSE (IF Len(runs[k]) = 1
          THEN <<[id |-> k, whole |-> TRUE, lo |-> 0, hi |-> 0,
                  value |-> runs[k][1].value]>>
          ELSE SliceEntries(runs[k], k, 0))
         \o SwitchEntriesMulti(runs, k + 1)

\* buildUnmarshalersSwitch with no case for the runs of one value.
buildUnmarshalersSwitchNoSingles(runs, multipleRuns) ==
    [style |-> "Switch",
     entries |-> IF multipleRuns
                 THEN SelectSeq(SwitchEntriesMulti(runs, 1), LAMBDA e : ~e.whole)
                 ELSE SliceEntries(Flatten(runs), 0, 0)]

buildUnmarshalersSwitch(runs, multipleRuns) ==
    [style |-> "Switch",
     entries |-> IF multipleRuns THEN SwitchEntriesMulti(runs, 1)
                 ELSE SliceEntries(Flatten(runs), 0, 0)]

\* buildUnmarshalersMap that slices one shared name constant also when the
\* names are declared for each run.
buildUnmarshalersMapShared(runs, multipleRuns) ==
    [style |-> "Map", entries |-> SliceEntries(Flatten(runs), 0, 0)]

\* Lines 1052-1068: the entries of _T_lookup_map.
RECURSIVE MapEntriesMulti(_, _)
MapEntriesMulti(runs, k) ==
    IF k > Len(runs) THEN <<>>
    ELSE SliceEntries(runs[k], k, 0) \o MapEntriesMulti(runs, k + 1)

buildUnmarshalersMap(runs, multipleRuns) ==
    [style |-> "Map",
     entries |-> IF multipleRuns THEN MapEntriesMulti(runs, 1)
                 ELSE SliceEntries(Flatten(runs), 0, 0)]

\* More values than this and Set uses a map.
MaxSwitchValues == 32

\* buildUnmarshalers that counts the runs, not their values.
buildUnmarshalersByRuns(runs, multipleRuns) ==
    IF Len(runs) <= MaxSwitchValues
    THEN buildUnmarshalersSwitch(runs, multipleRuns)
    ELSE buildUnmarshalersMap(runs, multipleRuns)

\* buildUnmarshalers
buildUnmarshalers(runs, multipleRuns) ==
    IF countValues(runs) <= MaxSwitchValues
    THEN buildUnmarshalersSwitch(runs, multipleRuns)
    ELSE buildUnmarshalersMap(runs, multipleRuns)

\* ------------------------------------------------------------------------
\* The generated methods
\* ------------------------------------------------------------------------
\* g is what was generated for a type: [typeName, kind, wordBytes, enc, dec],
\* enc the plan of String, Valid and MarshalText and dec that of Set and
\* UnmarshalText.  The methods are the templates of main.go read as Go.

\* The nil of a []byte or error result.
Nil == <<"<nil>">>

\* A run-time panic (index or slice bounds out of range).
Panic == <<"<panic>">>

\* T(n) for the constant n = len(_T_index)-1; the Go compiler rejects the
\* conversion when n overflows T.
Representable(g, n) ==
    ~LessU64(typeMinMax(g.kind, g.wordBytes)[2], U64(n))

\* A name constant, or a slice of one with constant bounds, that the compiler
\* accepts: the constant is declared and the bounds lie in it.
EntryCompiles(names, e) ==
    IF e.id \notin DOMAIN names THEN FALSE
    ELSE IF e.whole THEN TRUE
    ELSE 0 <= e.lo /\ e.lo <= e.hi /\ e.hi <= Len(names[e.id])

\* Whether the generated file compiles.
Compiles(g) ==
    /\ g.enc.strategy = "OneRun" => Representable(g, Len(g.enc.indexes[0]) - 1)
    /\ {k \in 1..Len(g.enc.map) : ~EntryCompiles(g.enc.names, g.enc.map[k])} = {}
    /\ {k \in 1..Len(g.dec.entries) :
            ~EntryCompiles(g.enc.names, g.dec.entries[k])} = {}

\* An array index of type T in range of an array of n elements.
InRange(i, n) == ~IsNeg64(i) /\ i[3] = 0 /\ i[4] = 0 /\ ToNat(i) < n

\* name[index[i]:index[i+1]], i and i+1 of type T.
Lookup(g, name, index, i) ==
    LET j == WrapT(g.kind, g.wordBytes, Add64(i, One64))
    IN  IF ~InRange(i, Len(index)) \/ ~InRange(j, Len(index)) THEN Panic
        ELSE LET lo == index[ToNat(i) + 1]
                 hi == index[ToNat(j) + 1]
             IN  IF lo <= hi /\ hi <= Len(name) THEN GoSlice(name, lo, hi) ELSE Panic

\* i - c and i + c in the arithmetic of T.
SubT(g, i, c) == WrapT(g.kind, g.wordBytes, Sub64(i, c))
AddT(g, i, c) == WrapT(g.kind, g.wordBytes, Add64(i, c))

\* "T(" + strconv.FormatInt(int64(i), 10) + ")"
Fallback(g, i) == <<g.typeName, "(">> \o FormatInt(i) \o <<")">>

\* "invalid T: " + strconv.FormatInt(int64(i), 10)
InvalidError(g, i) ==
    <<"i", "n", "v", "a", "l", "i", "d", " ", g.typeName, ":", " ">> \o FormatInt(i)


\* OneRunOutOfRange with the "i < 0 || " of a signed type left out.
OneRunOutOfRangeUnsigned(g, i) ==
    ~LessT(g.kind, i, U64(Len(g.enc.indexes[0]) - 1))

\* The one-run templates, after "i -= first" when there is an offset:
\* [lessThanZero] i >= T(len(_T_index)-1).
OneRunOutOfRange(g, i) ==
    \/ g.enc.lessThanZero /\ IsNeg64(i)
    \/ ~LessT(g.kind, i, U64(Len(g.enc.indexes[0]) - 1))

\* stringOneRun, stringOneRunWithOffset
stringOneRun(g, i0) ==
    LET i == IF g.enc.offset THEN SubT(g, i0, g.enc.first) ELSE i0
    IN  IF OneRunOutOfRange(g, i)
        THEN Fallback(g, IF g.enc.offset THEN AddT(g, i, g.enc.first) ELSE i)
        ELSE Lookup(g, g.enc.names[0], g.enc.indexes[0], i)

\* Valid of stringOneRunMarshal, stringOneRunWithOffsetMarshal
validOneRun(g, i0) ==
    LET i == IF g.enc.offset THEN SubT(g, i0, g.enc.first) ELSE i0
    IN  ~OneRunOutOfRange(g, i)

\* marshalOneRun with the error made of the shifted i, "+ first" left out.
marshalOneRunShifted(g, i0) ==
    LET i == IF g.enc.offset THEN SubT(g, i0, g.enc.first) ELSE i0
    IN  IF (g.enc.lessThanZero /\ IsNeg64(i))
           \/ ~LessT(g.kind, i, U64(Len(g.enc.indexes[0]) - 1))
        THEN [data |-> Nil, err |-> InvalidError(g, i)]
        ELSE [data |-> Lookup(g, g.enc.names[0], g.enc.indexes[0], i), err |-> Nil]

\* MarshalText of stringOneRunMarshal, stringOneRunWithOffsetMarshal
marshalOneRun(g, i0) ==
    LET i == IF g.enc.offset THEN SubT(g, i0, g.enc.first) ELSE i0
    IN  IF OneRunOutOfRange(g, i)
        THEN [data |-> Nil,
              err |-> InvalidError(g, IF g.enc.offset THEN AddT(g, i, g.enc.first) ELSE i)]
        ELSE [data |-> Lookup(g, g.enc.names[0], g.enc.indexes[0], i), err |-> Nil]

\* Whether i takes the case c of the multiple-runs switch.
CaseHolds(g, c, i) ==
    CASE c.cond = "eq" -> i = c.first
      [] c.cond = "le" -> ~LessT(g.kind, c.last, i)
      [] OTHER -> ~LessT(g.kind, i, c.first) /\ ~LessT(g.kind, c.last, i)

\* The first case of the switch that i takes, 0 for default.
FirstCase(g, i) ==
    LET taken == {k \in 1..Len(g.enc.cases) : CaseHolds(g, g.enc.cases[k], i)}
    IN  IF taken = {} THEN 0 ELSE CHOOSE k \in taken : \A j \in taken : k <= j

\* String of buildMultipleRuns
stringMultipleRuns(g, i) ==
    LET k == FirstCase(g, i)
        c == g.enc.cases[k]
    IN  IF k = 0 THEN Fallback(g, i)
        ELSE IF c.cond = "eq" THEN g.enc.names[c.id]
        ELSE Lookup(g, g.enc.names[c.id], g.enc.indexes[c.id],
                    IF c.subtract THEN SubT(g, i, c.first) ELSE i)

\* Valid of multipleRunsValid
validMultipleRuns(g, i) == FirstCase(g, i) # 0

\* stringMultipleRunsMarshal
marshalMultipleRuns(g, i) ==
    IF validMultipleRuns(g, i)
    THEN [data |-> stringMultipleRuns(g, i), err |-> Nil]
    ELSE [data |-> Nil, err |-> InvalidError(g, i)]

\* _T_map[i]: the entry of the map literal with key i, 0 when there is none.
MapEntry(g, i) ==
    LET hit == {k \in 1..Len(g.enc.map) : g.enc.map[k].value = i}
    IN  IF hit = {} THEN 0 ELSE CHOOSE k \in hit : TRUE

\* The string an entry denotes: a name constant or a slice of one.
EntryString(names, e) ==
    IF e.id \notin DOMAIN names THEN Panic
    ELSE IF e.whole THEN names[e.id]
    ELSE IF e.lo <= e.hi /\ e.hi <= Len(names[e.id]) THEN GoSlice(names[e.id], e.lo, e.hi)
    ELSE Panic

\* stringMap
stringMap(g, i) ==
    IF MapEntry(g, i) # 0 THEN EntryString(g.enc.names, g.enc.map[MapEntry(g, i)])
    ELSE Fallback(g, i)

\* Valid of stringMapMarhalers
validMap(g, i) == MapEntry(g, i) # 0

\* MarshalText of stringMapMarhalers
marshalMap(g, i) ==
    IF MapEntry(g, i) # 0
    THEN [data |-> EntryString(g.enc.names, g.enc.map[MapEntry(g, i)]), err |-> Nil]
    ELSE [data |-> Nil, err |-> InvalidError(g, i)]

\* The methods of the generated type.
String(g, i) ==
    CASE g.enc.strategy = "OneRun" -> stringOneRun(g, i)
      [] g.enc.strategy = "MultipleRuns" -> stringMultipleRuns(g, i)
      [] OTHER -> stringMap(g, i)

Valid(g, i) ==
    CASE g.enc.strategy = "OneRun" -> validOneRun(g, i)
      [] g.enc.strategy = "MultipleRuns" -> validMultipleRuns(g, i)
      [] OTHER -> validMap(g, i)

MarshalText(g, i) ==
    CASE g.enc.strategy = "OneRun" -> marshalOneRun(g, i)
      [] g.enc.strategy = "MultipleRuns" -> marshalMultipleRuns(g, i)
      [] OTHER -> marshalMap(g, i)

\* The bounds of the error text of Set and UnmarshalText: an input longer
\* than MaxErrorInput is cut to its first ErrorPrefixLen bytes.
MaxErrorInput == 32
ErrorPrefixLen == 29

\* MalformedError with "len(s) < 32" for "len(s) <= 32".
MalformedErrorStrict(g, s) ==
    <<"m", "a", "l", "f", "o", "r", "m", "e", "d", " ", g.typeName, ":", " ">>
    \o (IF Len(s) < MaxErrorInput THEN s
        ELSE GoSlice(s, 0, ErrorPrefixLen) \o <<".", ".", ".">>)

\* errFormat of buildUnmarshalersSwitch, and the tail of stringMapUnmarshalers
MalformedError(g, s) ==
    <<"m", "a", "l", "f", "o", "r", "m", "e", "d", " ", g.typeName, ":", " ">>
    \o (IF Len(s) <= MaxErrorInput THEN s
        ELSE GoSlice(s, 0, ErrorPrefixLen) \o <<".", ".", ".">>)

\* The entry the input selects: the first matching case of the switch, the
\* entry a map literal keeps for the key (its last), 0 when there is none.
DecodeEntry(g, s) ==
    LET hit == {k \in 1..Len(g.dec.entries) :
                    EntryString(g.enc.names, g.dec.entries[k]) = s}
    IN  IF hit = {} THEN 0
        ELSE IF g.dec.style = "Switch" THEN CHOOSE k \in hit : \A j \in hit : k <= j
        ELSE CHOOSE k \in hit : \A j \in hit : k >= j

\* Set with the receiver zeroed when the input is refused.
SetClearsReceiver(g, recv, s) ==
    IF DecodeEntry(g, s) # 0
    THEN [recv |-> g.dec.entries[DecodeEntry(g, s)].value, err |-> Nil]
    ELSE [recv |-> Zero64, err |-> MalformedError(g, s)]

\* Set of buildUnmarshalersSwitch and of stringMapUnmarshalers, on the
\* receiver *i = recv.
Set(g, recv, s) ==
    IF DecodeEntry(g, s) # 0
    THEN [recv |-> g.dec.entries[DecodeEntry(g, s)].value, err |-> Nil]
    ELSE [recv |-> recv, err |-> MalformedError(g, s)]

\* string(s) and len(s) of a []byte, nil or not.
BytesToString(b) == IF b = Nil THEN <<>> ELSE b

\* UnmarshalText of buildUnmarshalersSwitch and of stringMapUnmarshalers
UnmarshalText(g, recv, b) ==
    IF DecodeEntry(g, BytesToString(b)) # 0
    THEN [recv |-> g.dec.entries[DecodeEntry(g, BytesToString(b))].value, err |-> Nil]
    ELSE [recv |-> recv, err |-> MalformedError(g, BytesToString(b))]

\* ------------------------------------------------------------------------
\* buildInvalidValues, buildTests
\* ------------------------------------------------------------------------

\* The constant expression T(str) of a test row: the value of a decimal
\* literal, with its sign.
DigitValue(c) == CHOOSE d \in 0..9 : Digit(d) = c
TimesTenPlus(a, d) ==
    LET s1 == a[1] * 10 + d
        s2 == a[2] * 10 + (s1 \div LimbBase)
        s3 == a[3] * 10 + (s2 \div LimbBase)
        s4 == a[4] * 10 + (s3 \div LimbBase)
    IN  <<s1 % LimbBase, s2 % LimbBase, s3 % LimbBase, s4 % LimbBase>>
RECURSIVE ParseUint(_)
ParseUint(s) ==
    IF s = <<>> THEN Zero64
    ELSE TimesTenPlus(ParseUint(SubSeq(s, 1, Len(s) - 1)), DigitValue(s[Len(s)]))
ParseInt(s) == IF s[1] = "-" THEN Neg64(ParseUint(Tail(s))) ELSE ParseUint(s)

\* RunNeighbours with no test against the range of the type.
RunNeighboursUnclamped(run, signed, min, max) ==
    {Sub64(run[1].value, One64), Add64(run[Len(run)].value, One64)}

\* Lines 1180-1207: the values next to one run, inside the range of the type.
RunNeighbours(run, signed, min, max) ==
    LET first == run[1].value
        last == run[Len(run)].value
    IN  IF signed
        THEN (IF LessI64(min, first) THEN {Sub64(first, One64)} ELSE {})
             \cup (IF LessI64(last, max) THEN {Add64(last, One64)} ELSE {})
        ELSE (IF first # Zero64 THEN {Sub64(first, One64)} ELSE {})
             \cup (IF LessU64(last, max) THEN {Add64(last, One64)} ELSE {})

\* buildInvalidValues: the map invalid, as the set of its Values (one for a
\* key).
buildInvalidValues(runs, wordBytes) ==
    LET values == {Flatten(runs)[j].value : j \in 1..Len(Flatten(runs))}
        signed == runs[1][1].signed
        mm == typeMinMax(runs[1][1].kind, wordBytes)
        keys == ({mm[1], Zero64, mm[2]}
                 \cup (IF signed THEN {I64(-1)} ELSE {})
                 \cup UNION {RunNeighbours(runs[k], signed, mm[1], mm[2]) :
                             k \in 1..Len(runs)})
                \ values
    IN  {[originalName |-> <<>>, name |-> <<>>, value |-> u, signed |-> signed,
          kind |-> "Invalid",
          str |-> IF signed THEN FormatInt(u) ELSE FormatUint(u)] : u \in keys}

\* Lines 1238-1245: the row of the test matrix for one of the sorted values.
TestRow(v, invalid, typeName) ==
    IF \E w \in invalid : w.value = v.value
    THEN [value |-> ParseInt(v.str),
          expected |-> <<typeName, "(">> \o FormatInt(v.value) \o <<")">>,
          isValid |-> FALSE]
    ELSE [value |-> v.value, expected |-> v.name, isValid |-> TRUE]

\* ------------------------------------------------------------------------
\* generate
\* ------------------------------------------------------------------------

\* The orders a range over the map invalid is modelled to take: some order
\* and its reverse.
RECURSIVE SomeOrder(_)
SomeOrder(S) ==
    IF S = {} THEN <<>>
    ELSE LET x == CHOOSE x \in S : TRUE
         IN  <<x>> \o SomeOrder(S \ {x})
RangeOrders(S) ==
    LET q == SomeOrder(S)
    IN  {q, [i \in 1..Len(q) |-> q[Len(q) + 1 - i]]}

\* buildTests without the sort.Stable of the values.
buildTestsUnsorted(runs, typeName, wordBytes, order) ==
    LET invalid == buildInvalidValues(runs, wordBytes)
        values == Flatten(runs) \o order
    IN  [i \in 1..Len(values) |-> TestRow(values[i], invalid, typeName)]

\* Lines 1224-1245: the rows of the test matrix, order the order of the range
\* over invalid.
buildTests(runs, typeName, wordBytes, order) ==
    LET invalid == buildInvalidValues(runs, wordBytes)
        values == SortStable(Flatten(runs) \o order)
    IN  [i \in 1..Len(values) |-> TestRow(values[i], invalid, typeName)]

\* Lines 339-348: the constants of the type, over the files of the package.
RECURSIVE collect(_, _, _, _)
collect(files, typeName, trimPrefix, lineComment) ==
    IF files = <<>> THEN <<>>
    ELSE fileValues(files[1], typeName, trimPrefix, lineComment)
         \o collect(Tail(files), typeName, trimPrefix, lineComment)

\* generate that leaves File.values as the pass before left it.
keepValues(old) == old

\* Line 343: file.values = nil.
resetValues(old) == <<>>

\* Lines 340-345: File.values of each file after generate has reset it and
\* genDecl has walked the file for the type.
inspect(files, fvalues, typeName, trimPrefix, lineComment) ==
    [i \in 1..Len(files) |->
        resetValues(fvalues[i]) \o fileValues(files[i], typeName, trimPrefix, lineComment)]

\* The log.Fatalf that ends generate (and the process), "" when there is none.
\* generate without the check that the type has values.
generateFatalAllowsEmpty(values) ==
    IF NonInteger(values) THEN "can't handle non-integer constant type"
    ELSE IF Len(values) = 0 THEN ""
    ELSE IF checkForDuplicateValues(values) THEN "duplicate values"
    ELSE IF checkForDuplicateStrings(values) THEN "duplicate strings"
    ELSE ""

generateFatal(values) ==
    IF NonInteger(values) THEN "can't handle non-integer constant type"
    ELSE IF Len(values) = 0 THEN "no values defined for type"
    ELSE IF checkForDuplicateValues(values) THEN "duplicate values"
    ELSE IF checkForDuplicateStrings(values) THEN "duplicate strings"
    ELSE ""

\* The sequences that list every element of a finite set once.
RECURSIVE Perms(_)
Perms(S) ==
    IF S = {} THEN {<<>>}
    ELSE UNION {{<<x>> \o p : p \in Perms(S \ {x})} : x \in S}

\* The original names of the selected constants, in the order of their
\* declaration: seen[key] of the two checks.
SeenNames(sel) == [i \in 1..Len(sel) |-> sel[i].originalName]

\* Lines 404-412: "names == val" for every value that several constants have,
\* the value printed with %d as the uint64 it is stored as.
DuplicateValueGroups(values) ==
    {[names |-> SeenNames(SelectSeq(values, LAMBDA x : x.value = v)), key |-> FormatUint(v)] :
     v \in {values[i].value : i \in {i \in 1..Len(values) :
                \E j \in 1..Len(values) : j # i /\ values[j].value = values[i].value}}}

\* Lines 431-439: "origNames == name" for every display name that several
\* constants have.
DuplicateStringGroups(values) ==
    {[names |-> SeenNames(SelectSeq(values, LAMBDA x : x.name = s)), key |-> s] :
     s \in {values[i].name : i \in {i \in 1..Len(values) :
                \E j \in 1..Len(values) : j # i /\ values[j].name = values[i].name}}}

\* No log.Fatalf.
NoFatal == [msg |-> "", typeName |-> "", dupes |-> <<>>]

\* The messages the log.Fatalf of generate can print: the type and, for the
\* two checks, the colliding names of every group, the groups in the order of
\* a range over a map, which is any order.
fatalMessages(typeName, values) ==
    LET groups == IF generateFatal(values) = "duplicate values"
                  THEN DuplicateValueGroups(values)
                  ELSE IF generateFatal(values) = "duplicate strings"
                  THEN DuplicateStringGroups(values)
                  ELSE {}
    IN  {[msg |-> generateFatal(values), typeName |-> typeName, dupes |-> p] :
         p \in Perms(groups)}

\* Lines 360-385: what generate emits for the type.
generated(typeName, kind, wordBytes, values, order) ==
    LET runs == splitIntoRuns(values)
        enc == buildString(runs)
    IN  [typeName |-> typeName,
         kind |-> kind,
         wordBytes |-> wordBytes,
         runs |-> runs,
         enc |-> enc,
         dec |-> buildUnmarshalers(runs, enc.strategy = "MultipleRuns"),
         invalid |-> buildInvalidValues(runs, wordBytes),
         tests |-> buildTests(runs, typeName, wordBytes, order)]

\* ------------------------------------------------------------------------
\* The inputs of the model
\* ------------------------------------------------------------------------

\* The most constants a small enum of the model declares.
MaxMembers == 2

\* The longest input of Set and UnmarshalText that is no member's name.
MaxInputLen == 34

\* The requested type.
TypeName == "T"

\* The platforms: a kind for T, and the size of a word in bytes (it is varied
\* for the kinds whose width it decides).
Platforms ==
    {<<k, 8>> : k \in IntegerKinds} \cup {<<k, 4>> : k \in {"Int", "Uint", "Uintptr"}}

\* A const declaration "name T = value", one spec for each constant.
TypedSpec(name, kind, value, comment) ==
    [type |-> TypeName, call |-> "-",
     names |-> <<[name |-> name, kind |-> kind, value |-> value]>>,
     comment |-> comment]

\* The elements of a set of numbers in increasing and in decreasing order.
RECURSIVE Ascending(_)
Ascending(S) ==
    IF S = {} THEN <<>>
    ELSE LET m == CHOOSE a \in S : \A b \in S : a <= b
         IN  <<m>> \o Ascending(S \ {m})
Reverse(q) == [i \in 1..Len(q) |-> q[Len(q) + 1 - i]]
Orders(S) == {Ascending(S), Reverse(Ascending(S))}

\* Small enums: values around the ends of the type's range, around zero and,
\* for an unsigned type, around the sign bit, with names of several lengths.
SmallValues(kind, wordBytes) ==
    LET mm == typeMinMax(kind, wordBytes)
        half == Pow2x64(Bits(kind, wordBytes) - 1)
    IN  IF IsSigned(kind)
        THEN <<mm[1], I64(-1), U64(0), U64(1), U64(3), U64(4), mm[2]>>
        ELSE <<U64(0), U64(1), U64(3), U64(4), Sub64(half, One64), half, mm[2]>>

SmallNames ==
    <<<<"K", "a">>, <<"K", "b", "b">>, <<"K", "c">>, <<"K", "d", "d", "d">>,
      <<"K", "e">>, <<"K", "f", "f">>, <<"K", "g">>>>

SmallDecls(kind, wordBytes) ==
    {[i \in 1..Len(q) |->
        TypedSpec(SmallNames[q[i]], kind, SmallValues(kind, wordBytes)[q[i]], <<>>)] :
     q \in UNION {Orders(S) : S \in {S \in SUBSET (1..7) :
                                        Cardinality(S) \in 1..MaxMembers}}}

\* Enums whose names depend on -trimprefix and -linecomment: a constant named
\* as the prefix, a line comment, a blank line comment, a comment group of
\* two comments, and a line comment that reads as String prints a value that
\* has no name.
NamingSpecs(kind) ==
    <<TypedSpec(<<"K">>, kind, U64(0), <<>>),
      TypedSpec(<<"K", "a">>, kind, U64(1), <<<<" ", "x", " ">>>>),
      TypedSpec(<<"K", "b">>, kind, U64(2), <<<<" ">>>>),
      TypedSpec(<<"x">>, kind, U64(5), <<<<" ", "a">>, <<"b">>>>),
      TypedSpec(<<"K", "c">>, kind, U64(7), <<<<" ", TypeName, "(", "6", ")">>>>)>>

NamingDecls(kind) ==
    {[i \in 1..Len(q) |-> NamingSpecs(kind)[q[i]]] :
     q \in {Ascending(S) : S \in {S \in SUBSET (1..5) : Cardinality(S) \in 1..3}}}

\* Enums with aliases: C and E have the value of B and G the value of A, and
\* under -linecomment D and E have the display name of B.
AliasSpecs(kind) ==
    <<TypedSpec(<<"A">>, kind, U64(0), <<>>),
      TypedSpec(<<"B">>, kind, U64(1), <<>>),
      TypedSpec(<<"C">>, kind, U64(1), <<>>),
      TypedSpec(<<"D">>, kind, U64(3), <<<<" ", "B">>>>),
      TypedSpec(<<"E">>, kind, U64(1), <<<<"B", " ">>>>),
      TypedSpec(<<"G">>, kind, U64(0), <<>>)>>

\* The most constants an enum with aliases declares.
MaxAliasMembers == 4

AliasDecls(kind) ==
    {[i \in 1..Len(q) |-> AliasSpecs(kind)[q[i]]] :
     q \in UNION {Orders(S) : S \in {S \in SUBSET (1..6) :
                                        Cardinality(S) \in 1..MaxAliasMembers}}}

\* Large enums, around the crossovers of generate and buildUnmarshalers: a
\* block of b consecutive values and s single values two apart, declared in
\* decreasing order.
TwoDigits(n) == <<Digit(n \div 10), Digit(n % 10)>>
BlockStart(kind) == IF IsSigned(kind) THEN -5 ELSE 2
SparseStart(kind) == 60

LargeSpecs(kind, b, s) ==
    [i \in 1..(b + s) |->
        IF i <= s
        THEN TypedSpec(<<"S">> \o TwoDigits(s - i), kind,
                       I64(SparseStart(kind) + 2 * (s - i)), <<>>)
        ELSE TypedSpec(<<"B">> \o TwoDigits(b + s - i), kind,
                       I64(BlockStart(kind) + (b + s - i)), <<>>)]

LargeShapes ==
    {<<MaxSwitchValues, 0>>, <<MaxSwitchValues + 1, 0>>,
     <<0, MaxSwitchRuns>>, <<0, MaxSwitchRuns + 1>>,
     <<MaxSwitchValues - MaxSwitchRuns, MaxSwitchRuns - 1>>,
     <<MaxSwitchValues - MaxSwitchRuns + 1, MaxSwitchRuns - 1>>,
     <<MaxSwitchValues - MaxSwitchRuns + 2, MaxSwitchRuns - 1>>,
     <<MaxSwitchValues - MaxSwitchRuns, MaxSwitchRuns>>,
     <<MaxSwitchValues - MaxSwitchRuns + 1, MaxSwitchRuns>>}

LargeKinds == {"Int8", "Uint16", "Int"}

LargeDecls(kind) == {LargeSpecs(kind, sh[1], sh[2]) : sh \in LargeShapes}

\* Wide enums of an 8-bit type: n consecutive values from lo, named W000,
\* W001, ..., in const declarations of 32 constants, and for a second run a
\* last declaration of one constant X five away from zero on the other side.
WideSpec(kind, lo, i) ==
    TypedSpec(<<"W", Digit(i \div 100)>> \o TwoDigits(i % 100), kind, I64(lo + i), <<>>)

WideFile(kind, lo, n, extra) ==
    LET per == 32
        blocks == (n + per - 1) \div per
        size(b) == IF b * per <= n THEN per ELSE n - (b - 1) * per
    IN  [b \in 1..(blocks + extra) |->
            IF b <= blocks
            THEN [j \in 1..size(b) |-> WideSpec(kind, lo, (b - 1) * per + j - 1)]
            ELSE <<TypedSpec(<<"X">>, kind, I64(IF lo < 0 THEN 5 ELSE -5), <<>>)>>]

\* The enums: half the values of int8 from its least value and from zero,
\* alone and with a second run, one value less, and every value of uint8 and
\* one less.
WideFiles(kind) ==
    LET half == ToNat(MaxInt(8)) + 1
    IN  IF kind = "Int8"
        THEN {WideFile(kind, sh[1], sh[2], sh[3]) :
              sh \in {<<0 - half, half, 1>>, <<0, half, 1>>, <<0, half, 0>>,
                      <<0, half - 1, 0>>, <<0 - half, half, 0>>}}
        ELSE {WideFile(kind, 0, 2 * half, 0), WideFile(kind, 0, 2 * half - 1, 0)}

\* The values the methods are called with: the members, their neighbours, the
\* ends of the type's range, zero, minus one and the values around the sign
\* bits of int64 and of T.
Members(g) == Flatten(g.runs)
AllValues(g) == {Members(g)[j].value : j \in 1..Len(Members(g))}

\* The members the methods are called for: all of them, and of a wide enum
\* the first two and the last two of each run.
Sampled(g) ==
    IF Len(Members(g)) <= 2 * MaxSwitchValues
    THEN {Members(g)[j] : j \in 1..Len(Members(g))}
    ELSE UNION {{g.runs[k][j] : j \in {1, 2, Len(g.runs[k]) - 1, Len(g.runs[k])}
                                        \cap (1..Len(g.runs[k]))} :
                k \in 1..Len(g.runs)}

Probes(g) ==
    LET mm == typeMinMax(g.kind, g.wordBytes)
        half == Pow2x64(Bits(g.kind, g.wordBytes) - 1)
        seeds == {m.value : m \in Sampled(g)}
                 \cup {Add64(m.value, One64) : m \in Sampled(g)}
                 \cup {Sub64(m.value, One64) : m \in Sampled(g)}
                 \cup {mm[1], mm[2], Zero64, I64(-1), half, Sub64(half, One64),
                       Pow2x64(63), Sub64(Pow2x64(63), One64)}
    IN  {WrapT(g.kind, g.wordBytes, v) : v \in seeds}

\* The inputs of Set and UnmarshalText: the members' names, the first name of
\* each run with a byte more and a byte less, the fallback string of zero, the
\* expected strings of the test rows that are not valid, the empty string and
\* strings around the lengths the error text depends on.
Alphabet ==
    <<"a", "b", "c", "d", "e", "f", "g", "h", "i", "j", "k", "l", "m",
      "n", "o", "p", "q", "r", "s", "t", "u", "v", "w", "x", "y", "z">>
LongString(n) == [j \in 1..n |-> Alphabet[((j - 1) % 26) + 1]]

Inputs(g) ==
    {m.name : m \in Sampled(g)}
    \cup {g.runs[k][1].name \o <<"x">> : k \in 1..Len(g.runs)}
    \cup {SubSeq(g.runs[k][1].name, 1, Len(g.runs[k][1].name) - 1) : k \in 1..Len(g.runs)}
    \cup {<<>>, Fallback(g, Zero64)}
    \cup {g.tests[r].expected : r \in {r \in 1..Len(g.tests) : ~g.tests[r].isValid}}
    \cup {LongString(n) : n \in {ErrorPrefixLen, MaxErrorInput, MaxErrorInput + 1,
                                 MaxInputLen}}

\* Enums with long names: two constants of one run, named L... and M..., the
\* lengths of the names around the sizes usize tells apart.
LongNameDecls(kind) ==
    LET small == 2 ^ 8
        large == 2 ^ 16
    IN  {<<TypedSpec(<<"L">> \o LongString(ab[1] - 1), kind, U64(0), <<>>),
           TypedSpec(<<"M">> \o LongString(ab[2] - 1), kind, U64(1), <<>>)>> :
         ab \in ({small \div 2, small - 2, small - 1, small} \X {1, small \div 2})
                \cup ({large - 2, large - 1} \X {1})}

\* The receivers Set and UnmarshalText are called on: the zero value and
\* another one.
Receivers == {Zero64, U64(7)}

\* ------------------------------------------------------------------------
\* The state machine
\* ------------------------------------------------------------------------

VARIABLES
    files,        \* g.pkg.files: the const declarations of each file
    fvalues,      \* File.values of each file: the accumulator of genDecl
    kind,         \* the underlying kind of the type T
    wordBytes,    \* unsafe.Sizeof(int(0))
    trimPrefix,   \* -trimprefix
    lineComment,  \* -linecomment
    pc,           \* "start", "generated", "fatal" (log.Fatalf), "called"
    fatal,        \* what the log.Fatalf printed
    gen,          \* what generate emitted for T
    call,         \* the call of a generated method and its results
    types,        \* -type: the requested types
    output,       \* -output, <<>> when it is not given
    cur,          \* the index in types of the type generate is running for
    buf,          \* g.buf: what was printed to the output
    tbuf,         \* g.tbuf: what was printed to the test output
    out           \* the files written

\* The variables of main that one run of generate and the calls of the
\* generated methods leave alone.
mainVars == <<types, output, cur, buf, tbuf, out>>

vars == <<files, fvalues, kind, wordBytes, trimPrefix, lineComment, pc, fatal, gen, call,
          types, output, cur, buf, tbuf, out>>

\* One requested type, nothing printed and nothing written.
OneType ==
    /\ fvalues = [i \in 1..Len(files) |-> <<>>]
    /\ types = <<TypeName>>
    /\ output = <<>>
    /\ cur = 1
    /\ buf = <<>>
    /\ tbuf = <<>>
    /\ out = <<>>

NoCall ==
    [op |-> "none", i |-> Zero64, s |-> <<>>, recv0 |-> Zero64, recv |-> Zero64,
     str |-> <<>>, valid |-> FALSE, data |-> Nil, err |-> Nil]

NoGen == [typeName |-> TypeName, kind |-> "", wordBytes |-> 0, runs |-> <<>>,
          enc |-> <<>>, dec |-> <<>>, invalid |-> {}, tests |-> <<>>]

Init ==
    /\ \E pf \in Platforms :
        /\ kind = pf[1]
        /\ wordBytes = pf[2]
        /\ \/ /\ \E d \in SmallDecls(pf[1], pf[2]) : files = <<<<d>>>>
              /\ trimPrefix = <<>>
              /\ lineComment = FALSE
           \/ /\ pf[1] \in {"Int8", "Uint64"}
              /\ \E d \in NamingDecls(pf[1]) : files = <<<<d>>>>
              /\ trimPrefix \in {<<>>, <<"K">>}
              /\ lineComment \in BOOLEAN
           \/ /\ pf[1] \in {"Int8", "Uint64"}
              /\ \E d \in AliasDecls(pf[1]) : files = <<<<d>>>>
              /\ trimPrefix = <<>>
              /\ lineComment \in BOOLEAN
           \/ /\ pf[1] \in LargeKinds /\ pf[2] = 8
              /\ \E d \in LargeDecls(pf[1]) : files = <<<<d>>>>
              /\ trimPrefix = <<>>
              /\ lineComment = FALSE
    /\ pc = "start"
    /\ fatal = NoFatal
    /\ gen = NoGen
    /\ call = NoCall
    /\ OneType

\* generate(typeName), for the one type of the invocation.
Generate ==
    /\ pc = "start"
    /\ LET inspected == inspect(files, fvalues, TypeName, trimPrefix, lineComment)
           values == Flatten(inspected)
       IN  /\ fvalues' = inspected
           /\ IF generateFatal(values) # ""
              THEN /\ pc' = "fatal"
                   /\ fatal' \in fatalMessages(TypeName, values)
                   /\ gen' = gen
              ELSE /\ pc' = "generated"
                   /\ fatal' = fatal
                   /\ \E order \in RangeOrders(buildInvalidValues(splitIntoRuns(values),
                                                                  wordBytes)) :
                         gen' = generated(TypeName, kind, wordBytes, values, order)
    /\ UNCHANGED <<files, kind, wordBytes, trimPrefix, lineComment, call, mainVars>>

\* A program that uses the generated file calls one of its methods.
CallString ==
    /\ pc = "generated" /\ Compiles(gen)
    /\ \E i \in Probes(gen) :
        call' = [NoCall EXCEPT !.op = "String", !.i = i, !.str = String(gen, i)]
    /\ pc' = "called"
    /\ UNCHANGED <<files, fvalues, kind, wordBytes, trimPrefix, lineComment, fatal, gen, mainVars>>

CallValid ==
    /\ pc = "generated" /\ Compiles(gen)
    /\ \E i \in Probes(gen) :
        call' = [NoCall EXCEPT !.op = "Valid", !.i = i, !.valid = Valid(gen, i)]
    /\ pc' = "called"
    /\ UNCHANGED <<files, fvalues, kind, wordBytes, trimPrefix, lineComment, fatal, gen, mainVars>>

CallMarshalText ==
    /\ pc = "generated" /\ Compiles(gen)
    /\ \E i \in Probes(gen) :
        call' = [NoCall EXCEPT !.op = "MarshalText", !.i = i,
                               !.data = MarshalText(gen, i).data,
                               !.err = MarshalText(gen, i).err]
    /\ pc' = "called"
    /\ UNCHANGED <<files, fvalues, kind, wordBytes, trimPrefix, lineComment, fatal, gen, mainVars>>

CallSet ==
    /\ pc = "generated" /\ Compiles(gen)
    /\ \E s \in Inputs(gen), r \in Receivers :
        call' = [NoCall EXCEPT !.op = "Set", !.s = s, !.recv0 = r,
                               !.recv = Set(gen, r, s).recv,
                               !.err = Set(gen, r, s).err]
    /\ pc' = "called"
    /\ UNCHANGED <<files, fvalues, kind, wordBytes, trimPrefix, lineComment, fatal, gen, mainVars>>

CallUnmarshalText ==
    /\ pc = "generated" /\ Compiles(gen)
    /\ \E s \in Inputs(gen) \cup {Nil}, r \in Receivers :
        call' = [NoCall EXCEPT !.op = "UnmarshalText", !.s = s, !.recv0 = r,
                               !.recv = UnmarshalText(gen, r, s).recv,
                               !.err = UnmarshalText(gen, r, s).err]
    /\ pc' = "called"
    /\ UNCHANGED <<files, fvalues, kind, wordBytes, trimPrefix, lineComment, fatal, gen, mainVars>>

Next ==
    \/ Generate
    \/ CallString
    \/ CallValid
    \/ CallMarshalText
    \/ CallSet
    \/ CallUnmarshalText

Spec == Init /\ [][Next]_vars

\* generate and the generated methods for the wide enums of an 8-bit type.
InitWide ==
    /\ kind \in {"Int8", "Uint8"}
    /\ wordBytes = 8
    /\ IF kind = "Uint8"
       THEN \E f \in WideFiles(kind) \cup {<<d>> : d \in LongNameDecls(kind)} : files = <<f>>
       ELSE \E f \in WideFiles(kind) : files = <<f>>
    /\ trimPrefix = <<>>
    /\ lineComment = FALSE
    /\ pc = "start"
    /\ fatal = NoFatal
    /\ gen = NoGen
    /\ call = NoCall
    /\ OneType

SpecWide == InitWide /\ [][Next]_vars

\* ------------------------------------------------------------------------
\* splitIntoRuns alone, on constant lists that may repeat a value (generate
\* refuses those before it splits, so Spec never splits one).
SplitValues ==
    <<I64(-1), U64(0), U64(1), Not64(One64), MinInt(64), MaxInt(64)>>
SplitName(i) == <<"N">> \o TwoDigits(i)

\* The longest constant list splitIntoRuns is applied to on its own.
MaxSplitLen == 4

SplitDecls(k) ==
    UNION {{[i \in 1..n |-> TypedSpec(SplitName(i), k, SplitValues[q[i]], <<>>)] :
            q \in [1..n -> 1..Len(SplitValues)]} : n \in 1..MaxSplitLen}

InitSplit ==
    /\ kind \in {"Int64", "Uint64"}
    /\ wordBytes = 8
    /\ \E d \in SplitDecls(kind) : files = <<<<d>>>>
    /\ trimPrefix = <<>>
    /\ lineComment = FALSE
    /\ pc = "start"
    /\ fatal = NoFatal
    /\ gen = NoGen
    /\ call = NoCall
    /\ OneType

Split ==
    /\ pc = "start"
    /\ pc' = "split"
    /\ fvalues' = inspect(files, fvalues, TypeName, trimPrefix, lineComment)
    /\ gen' = [NoGen EXCEPT !.kind = kind, !.wordBytes = wordBytes,
                            !.runs = splitIntoRuns(Flatten(fvalues'))]
    /\ UNCHANGED <<files, kind, wordBytes, trimPrefix, lineComment, fatal, call, mainVars>>

NextSplit == Split

SpecSplit == InitSplit /\ [][NextSplit]_vars

\* ------------------------------------------------------------------------
\* main: the header, generate for each requested type, step by step, and the
\* two files.
\* ------------------------------------------------------------------------

\* The other type of the package.
OtherType == "U"

\* The most types -type names, and the most constants the package declares.
MaxTypes == 2
MaxMainSpecs == 3

\* The constants of the package: A, B, C (the value of B) and D (under
\* -linecomment the display name of B) of type T, X of type U, and Y of type
\* U when U is a floating-point type.
MainSpecs ==
    <<TypedSpec(<<"A">>, "Int8", U64(0), <<>>),
      TypedSpec(<<"B">>, "Int8", U64(1), <<>>),
      TypedSpec(<<"C">>, "Int8", U64(1), <<>>),
      TypedSpec(<<"D">>, "Int8", U64(3), <<<<" ", "B">>>>),
      [TypedSpec(<<"X">>, "Int8", U64(0), <<>>) EXCEPT !.type = OtherType],
      [TypedSpec(<<"Y">>, "Float64", U64(1), <<>>) EXCEPT !.type = OtherType]>>

MainDecls ==
    {[i \in 1..Len(q) |-> MainSpecs[q[i]]] :
     q \in {Ascending(S) : S \in {S \in SUBSET (1..6) :
                                     Cardinality(S) \in 0..MaxMainSpecs}}}

TypeLists ==
    UNION {[1..n -> {TypeName, OtherType}] : n \in 1..MaxTypes}

\* -output: not given, a name that ends in ".go", and one that does not.
Outputs == {<<>>, <<"x", ".go">>, <<"x">>}

\* strings.ToLower, on the names of the types.
ToLower(s) == IF s = "T" THEN "t" ELSE IF s = "U" THEN "u" ELSE s

\* strings.Replace(s, old, new, 1), on a name cut into pieces.
RECURSIVE ReplaceFirst(_, _, _)
ReplaceFirst(s, old, new) ==
    IF s = <<>> THEN <<>>
    ELSE IF s[1] = old THEN <<new>> \o Tail(s)
    ELSE <<s[1]>> \o ReplaceFirst(Tail(s), old, new)

\* Lines 188-193 and 203-208: the names of the two files.
outputName ==
    IF output = <<>> THEN <<ToLower(types[1]), "_string.go">> ELSE output
testOutputName ==
    IF ReplaceFirst(output, ".go", "_test.go") = <<>>
    THEN <<ToLower(types[1]), "_string_test.go">>
    ELSE ReplaceFirst(output, ".go", "_test.go")

\* What main and generate print: the header, and for a type the constant
\* checks, the String method and its tables, Set and UnmarshalText, and the
\* tests.
Header == [type |-> "", part |-> "header"]
Chunk(t, part) == [type |-> t, part |-> part]

\* The steps of generate, in the order of its statements.
GenerateSteps ==
    <<"collect", "check", "writeConstantChecks", "buildString", "buildUnmarshalers",
      "buildTests">>

\* generate with writeConstantChecks before the checks of the values.
StepAfterChecksLate(step) ==
    LET steps == <<"collect", "writeConstantChecks", "check", "buildString",
                   "buildUnmarshalers", "buildTests">>
        i == CHOOSE i \in 1..Len(steps) : steps[i] = step
    IN  IF i < Len(steps) THEN steps[i + 1] ELSE "return"

\* The step after step, "return" after the last.
StepAfter(step) ==
    LET i == CHOOSE i \in 1..Len(GenerateSteps) : GenerateSteps[i] = step
    IN  IF i < Len(GenerateSteps) THEN GenerateSteps[i + 1] ELSE "return"

\* Lines 184-186: after a step of generate comes its next step, after its
\* last step generate for the next type, and after the last type the files.
Proceed(step) ==
    IF StepAfter(step) # "return"
    THEN pc' = StepAfter(step) /\ cur' = cur
    ELSE IF cur < Len(types)
    THEN pc' = "collect" /\ cur' = cur + 1
    ELSE pc' = "write" /\ cur' = cur

\* The constants generate collects for the type it is running for.
CurrentValues == Flatten(fvalues)

InitMain ==
    /\ kind = "Int8"
    /\ wordBytes = 8
    /\ \E d \in MainDecls : files = <<<<d>>>>
    /\ trimPrefix = <<>>
    /\ lineComment \in BOOLEAN
    /\ fvalues = [i \in 1..Len(files) |-> <<>>]
    /\ types \in TypeLists
    /\ output \in Outputs
    /\ cur = 1
    /\ buf = <<>>
    /\ tbuf = <<>>
    /\ out = <<>>
    /\ pc = "start"
    /\ fatal = NoFatal
    /\ gen = NoGen
    /\ call = NoCall

\* Lines 165-181: the header of the output and of the test output.
PrintHeader ==
    /\ pc = "start"
    /\ buf' = Append(buf, Header)
    /\ tbuf' = Append(tbuf, Header)
    /\ pc' = "collect"
    /\ UNCHANGED <<files, fvalues, kind, wordBytes, trimPrefix, lineComment, fatal, gen, call,
                   types, output, cur, out>>

\* Lines 339-348: genDecl on every file; its log.Fatalf for a constant that is
\* no integer ends the process.
Collect ==
    /\ pc = "collect"
    /\ LET inspected == inspect(files, fvalues, types[cur], trimPrefix, lineComment)
           values == Flatten(inspected)
       IN  /\ fvalues' = inspected
           /\ IF NonInteger(values)
              THEN /\ pc' = "fatal"
                   /\ fatal' \in fatalMessages(types[cur], values)
                   /\ cur' = cur
              ELSE /\ Proceed("collect")
                   /\ fatal' = fatal
    /\ UNCHANGED <<files, kind, wordBytes, trimPrefix, lineComment, gen, call,
                   types, output, buf, tbuf, out>>

\* Lines 350-356: no values, checkForDuplicateValues, checkForDuplicateStrings.
Check ==
    /\ pc = "check"
    /\ LET values == CurrentValues
       IN  IF generateFatal(values) # ""
           THEN /\ pc' = "fatal"
                /\ fatal' \in fatalMessages(types[cur], values)
                /\ cur' = cur
           ELSE /\ Proceed("check")
                /\ fatal' = fatal
    /\ UNCHANGED <<files, fvalues, kind, wordBytes, trimPrefix, lineComment, gen, call,
                   types, output, buf, tbuf, out>>

\* Line 358: writeConstantChecks prints to the test output.
WriteConstantChecks ==
    /\ pc = "writeConstantChecks"
    /\ tbuf' = Append(tbuf, Chunk(types[cur], "checks"))
    /\ Proceed("writeConstantChecks")
    /\ UNCHANGED <<files, fvalues, kind, wordBytes, trimPrefix, lineComment, fatal, gen, call,
                   types, output, buf, out>>

\* Lines 360-382: splitIntoRuns and buildOneRun, buildMultipleRuns or buildMap.
BuildString ==
    /\ pc = "buildString"
    /\ buf' = Append(buf, Chunk(types[cur], "String"))
    /\ Proceed("buildString")
    /\ UNCHANGED <<files, fvalues, kind, wordBytes, trimPrefix, lineComment, fatal, gen, call,
                   types, output, tbuf, out>>

\* Lines 383-385: buildUnmarshalers.
BuildUnmarshalers ==
    /\ pc = "buildUnmarshalers"
    /\ buf' = Append(buf, Chunk(types[cur], "Set"))
    /\ Proceed("buildUnmarshalers")
    /\ UNCHANGED <<files, fvalues, kind, wordBytes, trimPrefix, lineComment, fatal, gen, call,
                   types, output, tbuf, out>>

\* Lines 386-388: buildTests prints to the test output.
BuildTests ==
    /\ pc = "buildTests"
    /\ tbuf' = Append(tbuf, Chunk(types[cur], "tests"))
    /\ Proceed("buildTests")
    /\ UNCHANGED <<files, fvalues, kind, wordBytes, trimPrefix, lineComment, fatal, gen, call,
                   types, output, buf, out>>

\* Lines 188-201: the output file; a WriteFile that fails may leave the file
\* empty, and ends the process.
WriteOutput ==
    /\ pc = "write"
    /\ \E ok \in BOOLEAN :
          IF ok
          THEN /\ out' = Append(out, [name |-> outputName, content |-> buf])
               /\ pc' = "writeTest"
               /\ fatal' = fatal
          ELSE /\ out' \in {out, Append(out, [name |-> outputName, content |-> <<>>])}
               /\ pc' = "fatal"
               /\ fatal' = [NoFatal EXCEPT !.msg = "writing output"]
    /\ UNCHANGED <<files, fvalues, kind, wordBytes, trimPrefix, lineComment, gen, call,
                   types, output, cur, buf, tbuf>>

\* Lines 203-214: the test file.
WriteTestOutput ==
    /\ pc = "writeTest"
    /\ \E ok \in BOOLEAN :
          IF ok
          THEN /\ out' = Append(out, [name |-> testOutputName, content |-> tbuf])
               /\ pc' = "written"
               /\ fatal' = fatal
          ELSE /\ out' \in {out, Append(out, [name |-> testOutputName, content |-> <<>>])}
               /\ pc' = "fatal"
               /\ fatal' = [NoFatal EXCEPT !.msg = "writing test output"]
    /\ UNCHANGED <<files, fvalues, kind, wordBytes, trimPrefix, lineComment, gen, call,
                   types, output, cur, buf, tbuf>>

NextMain ==
    \/ PrintHeader
    \/ Collect
    \/ Check
    \/ WriteConstantChecks
    \/ BuildString
    \/ BuildUnmarshalers
    \/ BuildTests
    \/ WriteOutput
    \/ WriteTestOutput

SpecMain == InitMain /\ [][NextMain]_vars

\* ------------------------------------------------------------------------
\* genDecl on const declarations of every shape
\* ------------------------------------------------------------------------

\* The most specs of a const declaration genDecl is applied to on its own.
MaxDeclSpecs == 3

\* The shapes of a ValueSpec, with the type each of its constants has:
\*   N T = v;  N U = v;  N = T(v);  N = U(v);  N = v (untyped, "");
\*   N pkg.V = v ("*");  N, M = T(v), U(w);  N, M T = v, w;
\*   and N (or N, M) with neither type nor values.
DeclShapes ==
    {[type |-> TypeName, call |-> "-", own |-> <<TypeName>>],
     [type |-> OtherType, call |-> "-", own |-> <<OtherType>>],
     [type |-> "", call |-> TypeName, own |-> <<TypeName>>],
     [type |-> "", call |-> OtherType, own |-> <<OtherType>>],
     [type |-> "", call |-> "-", own |-> <<"">>],
     [type |-> "*", call |-> "-", own |-> <<"*">>],
     [type |-> "", call |-> TypeName, own |-> <<TypeName, OtherType>>],
     [type |-> TypeName, call |-> "-", own |-> <<TypeName, TypeName>>],
     [type |-> "", call |-> "", own |-> <<>>]}

\* The types of the constants of the spec i of a declaration: a spec with
\* neither type nor values repeats the last spec before it that has values,
\* type included (the language's implicit repetition).
OwnTypes(shapes, i) ==
    LET valued == {j \in 1..i : shapes[j].call # ""}
        last == CHOOSE j \in valued : \A k \in valued : k <= j
    IN  shapes[last].own

\* The declaration with the specs of these shapes; its constants are N1, M1,
\* N2, ... with values that differ.
ShapedDecl(shapes) ==
    [i \in 1..Len(shapes) |->
        [type |-> shapes[i].type, call |-> shapes[i].call, comment |-> <<>>,
         names |-> [j \in 1..Len(OwnTypes(shapes, i)) |->
                       [name |-> <<(IF j = 1 THEN "N" ELSE "M"), Digit(i)>>,
                        kind |-> IF OwnTypes(shapes, i)[j] = "" THEN "UntypedInt" ELSE "Int",
                        value |-> U64(2 * i + j),
                        type |-> OwnTypes(shapes, i)[j]]]]]

\* A declaration starts with a spec that has values.
ShapedDecls ==
    UNION {{ShapedDecl(q) : q \in {q \in [1..n -> DeclShapes] : q[1].call # ""}} :
           n \in 1..MaxDeclSpecs}

InitDecl ==
    /\ kind = "Int"
    /\ wordBytes = 8
    /\ \E d \in ShapedDecls : files = <<<<d>>>>
    /\ trimPrefix = <<>>
    /\ lineComment = FALSE
    /\ pc = "start"
    /\ fatal = NoFatal
    /\ gen = NoGen
    /\ call = NoCall
    /\ OneType

\* Lines 340-348: generate walks the files with genDecl.
Walk ==
    /\ pc = "start"
    /\ pc' = "collected"
    /\ fvalues' = inspect(files, fvalues, TypeName, trimPrefix, lineComment)
    /\ UNCHANGED <<files, kind, wordBytes, trimPrefix, lineComment, fatal, gen, call,
                   mainVars>>

NextDecl == Walk

SpecDecl == InitDecl /\ [][NextDecl]_vars

\* ------------------------------------------------------------------------
\* Properties
\* ------------------------------------------------------------------------

Called(op) == pc = "called" /\ call.op = op
Decoded == pc = "called" /\ call.op \in {"Set", "UnmarshalText"}

\* The members of the generated type with the value v, and with the name s.
WithValue(v) == {j \in 1..Len(Members(gen)) : Members(gen)[j].value = v}
WithName(s) == {j \in 1..Len(Members(gen)) : Members(gen)[j].name = s}

\* C1: round trip.  String of a member's value is the member's display name,
\* and Set and UnmarshalText of a member's display name return a nil error and
\* leave the member's value in the receiver, whatever the strategy of String
\* and the style of the decoder.
C1_RoundTrip ==
    /\ Called("String") =>
          \A j \in WithValue(call.i) : call.str = Members(gen)[j].name
    /\ Decoded =>
          \A j \in WithName(BytesToString(call.s)) :
              call.err = Nil /\ call.recv = Members(gen)[j].value

\* A decoded member of a type that has both a map for String and a lookup map
\* for Set, the receiver overwritten.
C1_Witness ==
    /\ Called("Set")
    /\ gen.enc.strategy = "Map" /\ gen.dec.style = "Map"
    /\ WithName(call.s) # {}
    /\ call.recv # call.recv0

\* C2: Valid(v) is true exactly when v is the value of a member.
C2_ValidIffMember ==
    Called("Valid") => (call.valid <=> call.i \in AllValues(gen))

\* Valid of a value below the first member of a single run with an offset,
\* where the subtraction wraps around.
C2_Witness ==
    /\ Called("Valid")
    /\ gen.enc.strategy = "OneRun" /\ gen.enc.offset
    /\ LessT(gen.kind, call.i, gen.enc.first)
    /\ ~call.valid

\* The decimal form of a value of T, honoring the sign: FormatInt for a signed
\* type and FormatUint for an unsigned one.
Decimal(k, v) == IF IsSigned(k) THEN FormatInt(v) ELSE FormatUint(v)

\* C3: String of a value that is no member's is "T(d)", d the value in base
\* 10, with a minus sign only for a negative value of a signed type and the
\* magnitude for an unsigned type of any width.
C3_FallbackDecimal ==
    (Called("String") /\ call.i \notin AllValues(gen)) =>
        call.str = <<TypeName, "(">> \o Decimal(gen.kind, call.i) \o <<")">>

\* C4: Set and UnmarshalText return a nil error exactly for the display name
\* of a member, and an ordinary error, no panic, for any other input.
C4_NilIffMemberName ==
    Decoded =>
        /\ call.err = Nil <=> WithName(BytesToString(call.s)) # {}
        /\ call.err # Panic /\ call.recv # Panic
        /\ call.err # Nil => HasPrefix(call.err, <<"m", "a", "l", "f", "o", "r", "m",
                                                   "e", "d", " ", TypeName, ":", " ">>)

\* A member's name with a byte appended is refused.
C4_Witness ==
    /\ Called("UnmarshalText")
    /\ call.s # Nil /\ call.s # <<>>
    /\ WithName(SubSeq(call.s, 1, Len(call.s) - 1)) # {}
    /\ call.err # Nil

\* C5: the error text of a refused input s is "malformed T: " and s when
\* len(s) <= 32, and "malformed T: ", the first 29 bytes of s and "..."
\* otherwise; the part taken from the input is at most 32 bytes long.
C5_ErrorText ==
    (Decoded /\ call.err # Nil) =>
        LET s == BytesToString(call.s)
            head == <<"m", "a", "l", "f", "o", "r", "m", "e", "d", " ", TypeName, ":", " ">>
        IN  /\ Len(s) <= 32 => call.err = head \o s
            /\ Len(s) > 32 => call.err = head \o SubSeq(s, 1, 29) \o <<".", ".", ".">>
            /\ Len(call.err) - Len(head) <= 32

\* A refused input of 33 bytes.
C5_Witness ==
    /\ Called("Set")
    /\ Len(call.s) = 33
    /\ call.err # Nil

\* C6: a Set or UnmarshalText that returns an error leaves the receiver as it
\* was; the receiver is written only when the error is nil.
C6_FailureKeepsReceiver ==
    Decoded =>
        /\ call.err # Nil => call.recv = call.recv0
        /\ call.recv # call.recv0 => call.err = Nil

\* A refused input on a receiver that was not zero.
C6_Witness ==
    /\ Called("Set")
    /\ call.err # Nil
    /\ call.recv0 # Zero64 /\ call.recv = call.recv0

\* C7: MarshalText succeeds exactly when Valid: for a member it returns the
\* display name, which is String's result, and a nil error; for any other
\* value nil data and the error "invalid T: d", d the value as an int64 in
\* base 10.
C7_MarshalText ==
    Called("MarshalText") =>
        /\ call.err = Nil <=> Valid(gen, call.i)
        /\ call.err = Nil <=> call.i \in AllValues(gen)
        /\ call.err = Nil =>
              /\ call.data = String(gen, call.i)
              /\ \A j \in WithValue(call.i) : call.data = Members(gen)[j].name
        /\ call.err # Nil =>
              /\ call.data = Nil
              /\ call.err = <<"i", "n", "v", "a", "l", "i", "d", " ", TypeName, ":", " ">>
                            \o FormatInt(call.i)

\* MarshalText of a value that is no member, on a single run with an offset.
C7_Witness ==
    /\ Called("MarshalText")
    /\ gen.enc.strategy = "OneRun" /\ gen.enc.offset
    /\ call.err # Nil

\* The values of the constants collected from the declarations.
InputValues ==
    LET values == collect(files, TypeName, trimPrefix, lineComment)
    IN  {values[i].value : i \in 1..Len(values)}

\* C8: the runs splitIntoRuns returns are pairwise disjoint, each run is
\* contiguous (a member's value is its predecessor's plus one), and the values
\* of the runs are the distinct values of the input, each once.
C8_Partition ==
    pc = "split" =>
        LET runs == gen.runs
            vals(k) == {runs[k][j].value : j \in 1..Len(runs[k])}
        IN  /\ \A k, l \in 1..Len(runs) : k # l => vals(k) \cap vals(l) = {}
            /\ \A k \in 1..Len(runs) : \A j \in 1..(Len(runs[k]) - 1) :
                  /\ runs[k][j + 1].value = Add64(runs[k][j].value, One64)
                  /\ LessT(gen.kind, runs[k][j].value, runs[k][j + 1].value)
            /\ UNION {vals(k) : k \in 1..Len(runs)} = InputValues
            /\ countValues(runs) = Cardinality(InputValues)

\* A list that repeats a value and splits into two runs, one of them longer
\* than one.
C8_Witness ==
    /\ pc = "split"
    /\ Len(gen.runs) = 2
    /\ Len(gen.runs[1]) = 2
    /\ Len(collect(files, TypeName, trimPrefix, lineComment)) > Cardinality(InputValues)

\* The name tables generate emitted, each with its run.
Tables ==
    CASE gen.enc.strategy = "OneRun" ->
            {[name |-> gen.enc.names[0], index |-> gen.enc.indexes[0], run |-> gen.runs[1]]}
      [] gen.enc.strategy = "MultipleRuns" ->
            {[name |-> gen.enc.names[k], index |-> gen.enc.indexes[k], run |-> gen.runs[k]] :
             k \in DOMAIN gen.enc.indexes}
      [] OTHER -> {}

\* C9: every index array has one element more than its run has members,
\* starts with 0, is strictly increasing, and the slice of the name between
\* two neighbouring elements is the display name of the member.
C9_IndexInvariant ==
    pc = "generated" =>
        \A t \in Tables :
            /\ Len(t.index) = Len(t.run) + 1
            /\ t.index[1] = 0
            /\ \A i \in 1..Len(t.run) :
                  /\ t.index[i] < t.index[i + 1]
                  /\ t.index[i + 1] <= Len(t.name)
                  /\ GoSlice(t.name, t.index[i], t.index[i + 1]) = t.run[i].name

\* C10: one run selects the single-run code, two to ten runs the switch over
\* the runs, and more than ten the map.
C10_Strategy ==
    pc \in {"generated", "called"} =>
        gen.enc.strategy =
            (IF Len(gen.runs) = 1 THEN "OneRun"
             ELSE IF Len(gen.runs) <= 10 THEN "MultipleRuns"
             ELSE "Map")

\* Eleven runs, and the map.
C10_Witness ==
    /\ pc = "generated"
    /\ Len(gen.runs) = 11
    /\ gen.enc.strategy = "Map"


\* C11: the decoder is a switch when the runs hold at most 32 members in all
\* and a lookup map when they hold more, whatever the number of runs and the
\* strategy of String.
C11_DecodeStyle ==
    pc \in {"generated", "called"} =>
        gen.dec.style = (IF Len(Members(gen)) <= 32 THEN "Switch" ELSE "Map")

\* Thirty-three members in ten runs: the switch for String, the map for Set.
C11_Witness ==
    /\ pc = "generated"
    /\ Len(Members(gen)) = 33
    /\ gen.enc.strategy = "MultipleRuns"
    /\ gen.dec.style = "Map"

\* The constants generate collected, in the order of their declaration.
Collected == collect(files, TypeName, trimPrefix, lineComment)

\* C12: of the constants with one value splitIntoRuns keeps exactly one, the
\* one declared first, and it keeps a member for every value of the input.
C12_FirstDeclaredWins ==
    pc = "split" =>
        \A v \in InputValues :
            LET first == CHOOSE i \in 1..Len(Collected) :
                            /\ Collected[i].value = v
                            /\ \A h \in 1..(i - 1) : Collected[h].value # v
            IN  /\ Cardinality(WithValue(v)) = 1
                /\ \A j \in WithValue(v) : Members(gen)[j] = Collected[first]

\* Three constants with one value, and one constant with another.
C12_Witness ==
    /\ pc = "split"
    /\ Len(Collected) = 4
    /\ Cardinality(InputValues) = 2
    /\ \E v \in InputValues :
          Cardinality({i \in 1..Len(Collected) : Collected[i].value = v}) = 3


\* Two collected constants have one value; two have one display name.
SameValue ==
    LET c == Collected
    IN  Cardinality({c[i].value : i \in 1..Len(c)}) < Len(c)
SameName ==
    LET c == Collected
    IN  Cardinality({c[i].name : i \in 1..Len(c)}) < Len(c)

\* The first declared of the collected constants that have the value v.
FirstWith(v) ==
    Collected[CHOOSE i \in 1..Len(Collected) :
                 /\ Collected[i].value = v
                 /\ \A h \in 1..(i - 1) : Collected[h].value # v]

\* C13: when constants of the type have one value (their display names all
\* different), generate completes, String of every constant is the display
\* name of the first declared constant with its value, and Set of that name
\* gives the constant's value.
C13_AliasResolved ==
    (pc # "start" /\ SameValue /\ ~SameName) =>
        /\ pc \in {"generated", "called"}
        /\ \A i \in 1..Len(Collected) :
              /\ String(gen, Collected[i].value) = FirstWith(Collected[i].value).name
              /\ Set(gen, Zero64, FirstWith(Collected[i].value).name).err = Nil
              /\ Set(gen, Zero64, FirstWith(Collected[i].value).name).recv
                     = Collected[i].value

\* The group of the message fatal that names the constants i and j of one
\* value: their names in the order of declaration and the value.
ValueGroupOf(i) ==
    [names |-> SeenNames(SelectSeq(Collected, LAMBDA x : x.value = Collected[i].value)),
     key |-> FormatUint(Collected[i].value)]

Neighbours ==
    LET mm == typeMinMax(gen.kind, gen.wordBytes)
    IN  {Sub64(gen.runs[k][1].value, One64) :
            k \in {k \in 1..Len(gen.runs) : gen.runs[k][1].value # mm[1]}}
        \cup {Add64(gen.runs[k][Len(gen.runs[k])].value, One64) :
            k \in {k \in 1..Len(gen.runs) : gen.runs[k][Len(gen.runs[k])].value # mm[2]}}

\* C16: the values of buildInvalidValues are the least and the greatest value
\* of the type, zero, minus one for a signed type and the neighbours of the
\* runs, without the values of the members; each is there once, none is a
\* member's, and each is a value of the type.
C16_InvalidValues ==
    pc = "generated" =>
        LET mm == typeMinMax(gen.kind, gen.wordBytes)
            got == {w.value : w \in gen.invalid}
        IN  /\ got = ({mm[1], mm[2], Zero64}
                      \cup (IF IsSigned(gen.kind) THEN {I64(-1)} ELSE {})
                      \cup Neighbours) \ AllValues(gen)
            /\ Cardinality(gen.invalid) = Cardinality(got)
            /\ \A v \in got :
                  /\ v \notin AllValues(gen)
                  /\ ~LessT(gen.kind, v, mm[1]) /\ ~LessT(gen.kind, mm[2], v)
                  /\ WrapT(gen.kind, gen.wordBytes, v) = v

\* Two runs of a signed type with one value between them, which is there
\* once, and minus one.
C16_Witness ==
    /\ pc = "generated"
    /\ IsSigned(gen.kind)
    /\ Len(gen.runs) = 2
    /\ Add64(gen.runs[1][1].value, One64) = Sub64(gen.runs[2][1].value, One64)
    /\ Cardinality({w \in gen.invalid :
                       w.value = Add64(gen.runs[1][1].value, One64)}) = 1
    /\ I64(-1) \in {w.value : w \in gen.invalid}


\* The rows of the test matrix for the value v.
RowsOf(v) == {r \in 1..Len(gen.tests) : gen.tests[r].value = v}

\* C17: the test matrix has one row for every member, valid and with the
\* display name, one row for every value of buildInvalidValues, not valid and
\* with "T(d)", d the value in base 10, and no other row; the rows are in
\* strictly ascending order of value, in the order of the type.
C17_TestMatrix ==
    pc = "generated" =>
        /\ \A j \in 1..Len(Members(gen)) :
              /\ Cardinality(RowsOf(Members(gen)[j].value)) = 1
              /\ \A r \in RowsOf(Members(gen)[j].value) :
                    /\ gen.tests[r].isValid
                    /\ gen.tests[r].expected = Members(gen)[j].name
        /\ \A w \in gen.invalid :
              /\ Cardinality(RowsOf(w.value)) = 1
              /\ \A r \in RowsOf(w.value) :
                    /\ ~gen.tests[r].isValid
                    /\ gen.tests[r].expected
                          = <<TypeName, "(">> \o Decimal(gen.kind, w.value) \o <<")">>
        /\ Len(gen.tests) = Len(Members(gen)) + Cardinality(gen.invalid)
        /\ \A r \in 1..(Len(gen.tests) - 1) :
              LessT(gen.kind, gen.tests[r].value, gen.tests[r + 1].value)

\* C20: Set and UnmarshalText of the expected string of a test row that is not
\* valid, on a zero receiver, return an error and leave the receiver zero.
C20_ProbeStringsRefused ==
    (/\ Decoded
     /\ call.recv0 = Zero64
     /\ \E r \in 1..Len(gen.tests) :
           ~gen.tests[r].isValid /\ gen.tests[r].expected = BytesToString(call.s)) =>
        /\ call.err # Nil
        /\ call.recv = Zero64


\* The constants of type t, and whether generate runs to its end for them.
ValuesOf(t) == collect(files, t, trimPrefix, lineComment)
Planned(t) == generateFatal(ValuesOf(t)) = ""
Requested == {types[i] : i \in 1..Len(types)}
Ended == pc = "written" \/ (pc = "fatal" /\ fatal.typeName # "")

\* The types with something in a buffer or in the content of a file.
TypesIn(chunks) == {chunks[i].type : i \in 1..Len(chunks)} \ {""}
TypesWritten == UNION {TypesIn(out[i].content) : i \in 1..Len(out)}

\* What is in the buffers when generate has run to its end for the first n
\* requested types.
RECURSIVE OutputOf(_)
OutputOf(n) ==
    IF n = 0 THEN <<Header>>
    ELSE OutputOf(n - 1) \o <<Chunk(types[n], "String"), Chunk(types[n], "Set")>>
RECURSIVE TestOutputOf(_)
TestOutputOf(n) ==
    IF n = 0 THEN <<Header>>
    ELSE TestOutputOf(n - 1) \o <<Chunk(types[n], "checks"), Chunk(types[n], "tests")>>

\* C18 as stated: when a requested type has no constants, generation is
\* aborted for that type only: once the run has ended, the code of every
\* other requested type that generate accepts is in a written file.
C18_OtherTypesWritten ==
    (Ended /\ \E t \in Requested : ValuesOf(t) = <<>>)
        => \A u \in Requested : (ValuesOf(u) # <<>> /\ Planned(u)) => u \in TypesWritten

\* C18, amended: a requested type without constants ends the whole run at
\* that type: the message names it, no file is written, no later type is
\* generated, and a run that writes a file had constants for every requested
\* type.
C18_NoMembersEndsRun ==
    /\ fatal.msg = "no values defined for type"
           => /\ pc = "fatal"
              /\ fatal.typeName = types[cur]
              /\ ValuesOf(types[cur]) = <<>>
              /\ out = <<>>
              /\ buf = OutputOf(cur - 1)
              /\ tbuf = TestOutputOf(cur - 1)
    /\ out # <<>> => \A t \in Requested : ValuesOf(t) # <<>>

\* C18: the first of two requested types has no constants, the second has
\* constants generate accepts, and the run has ended without a file.
C18_Witness ==
    /\ pc = "fatal"
    /\ fatal.msg = "no values defined for type"
    /\ Len(types) = 2
    /\ cur = 1
    /\ types[2] # types[1]
    /\ ValuesOf(types[2]) # <<>>
    /\ Planned(types[2])
    /\ out = <<>>

\* C19: every input error of a type (no members, a constant that is no
\* integer, a duplicate value, a duplicate display string) is raised before
\* anything of the type is in the output buffer or the test buffer: the
\* buffers hold the header and output of types generate accepts, complete for
\* the types before the current one, and once a type has failed the buffers
\* hold exactly that and no file is ever written.
C19_NoPartialSuccess ==
    /\ \A t \in TypesIn(buf) \cup TypesIn(tbuf) : Planned(t)
    /\ pc \in {"collect", "check", "fatal"} /\ fatal.msg \notin {"writing output", "writing test output"}
           => buf = OutputOf(cur - 1) /\ tbuf = TestOutputOf(cur - 1)
    /\ fatal.typeName # ""
           => /\ pc = "fatal"
              /\ ~Planned(fatal.typeName)
              /\ fatal.msg = generateFatal(ValuesOf(fatal.typeName))
              /\ out = <<>>
    /\ out # <<>> => \A t \in Requested : Planned(t)

\* C19: the second requested type fails with a duplicate after the first was
\* generated completely.
C19_Witness ==
    /\ pc = "fatal"
    /\ cur = 2
    /\ fatal.msg \in {"duplicate values", "duplicate strings"}
    /\ fatal.typeName = types[2]
    /\ buf = OutputOf(1)
    /\ tbuf = TestOutputOf(1)
    /\ out = <<>>


\* C21: for every enum generate accepts no member has an empty display name,
\* and UnmarshalText of nil and of an empty slice returns an error.
C21_EmptyInputRefused ==
    /\ pc \in {"generated", "called"} => WithName(<<>>) = {}
    /\ (Called("UnmarshalText") /\ BytesToString(call.s) = <<>>) => call.err # Nil


\* C22: for every value of the type, declared or not, String, Valid and
\* MarshalText return normally: no index or slice expression is out of range,
\* and String of a value that is not declared is the fallback string.
C22_NoPanic ==
    /\ Called("String") =>
          /\ call.str # Panic
          /\ call.i \notin AllValues(gen) => call.str = Fallback(gen, call.i)
    /\ Called("MarshalText") => call.data # Panic


\* C23: the width of the elements of an index array is the least of 8, 16
\* and 32 bits that holds the length of the run's names, 8 up to 255, 16 up
\* to 65535 and 32 above; the last index is that length and every index fits
\* the elements.
C23_IndexWidth ==
    pc \in {"generated", "called"} =>
        \A id \in DOMAIN gen.enc.indexes :
            LET n == Len(gen.enc.names[id])
                index == gen.enc.indexes[id]
                bits == gen.enc.bits[id]
            IN  /\ bits = (IF n <= 255 THEN 8 ELSE IF n <= 65535 THEN 16 ELSE 32)
                /\ index[Len(index)] = n
                /\ \A i \in 1..Len(index) :
                      0 <= index[i] /\ (IF bits = 32 THEN TRUE ELSE index[i] < 2 ^ bits)

\* C23: an index array of uint16 for names of 256 bytes.
C23_Witness ==
    /\ pc = "generated"
    /\ gen.enc.strategy = "OneRun"
    /\ Len(gen.enc.names[0]) = 256
    /\ gen.enc.bits[0] = 16


\* C24: generate is deterministic: what it emits for the collected constants
\* and the settings is the same for every order the range over the map of
\* invalid values takes.
C24_Deterministic ==
    [][(pc = "start" /\ pc' = "generated") =>
          LET values == Collected
          IN  \A order \in RangeOrders(buildInvalidValues(splitIntoRuns(values),
                                                          wordBytes)) :
                  gen' = generated(TypeName, kind, wordBytes, values, order)]_vars

\* C24: generated tests with several invalid values, ranged over in two
\* different orders.
C24_Witness ==
    /\ pc = "generated"
    /\ Cardinality(gen.invalid) >= 3
    /\ Cardinality(RangeOrders(gen.invalid)) = 2
    /\ \E r \in 1..Len(gen.tests) : gen.tests[r].isValid


\* The length of the names of the first n of the members ms.
NamesLen(ms, n) == Len(Flatten(RunNames(SubSeq(ms, 1, n))))

\* C25: in every combination of the strategy of String and the style of the
\* decoder, the key of member p of run k is a slice of a name constant the
\* strategy declares (the whole constant for a run of one member in the
\* switch over several runs) and reads as the member's display name: of the
\* run's constant with offsets from 0 under MultipleRuns, of the one shared
\* constant with offsets over all runs in order under OneRun and Map.
C25_DecodeKeys ==
    pc \in {"generated", "called"} =>
        /\ Len(gen.dec.entries) = Len(Members(gen))
        /\ \A k \in 1..Len(gen.runs) : \A p \in 1..Len(gen.runs[k]) :
              LET j == Len(Flatten(SubSeq(gen.runs, 1, k - 1))) + p
                  e == gen.dec.entries[j]
                  m == gen.runs[k][p]
                  multi == gen.enc.strategy = "MultipleRuns"
              IN  /\ e.value = m.value
                  /\ e.id \in DOMAIN gen.enc.names
                  /\ e.id = (IF multi THEN k ELSE 0)
                  /\ e.whole <=> (multi /\ gen.dec.style = "Switch" /\ Len(gen.runs[k]) = 1)
                  /\ EntryString(gen.enc.names, e) = m.name
                  /\ ~e.whole =>
                        /\ e.lo = (IF multi THEN NamesLen(gen.runs[k], p - 1)
                                   ELSE NamesLen(Members(gen), j - 1))
                        /\ e.hi = e.lo + Len(m.name)

\* C25: a lookup map over the names of several runs, one of them a run of one
\* member.
C25_Witness ==
    /\ pc = "generated"
    /\ gen.enc.strategy = "MultipleRuns"
    /\ gen.dec.style = "Map"
    /\ \E k \in 1..Len(gen.runs) : Len(gen.runs[k]) = 1
    /\ \E k \in 1..Len(gen.runs) : Len(gen.runs[k]) > 1


\* C26: the runs of splitIntoRuns are not empty and in increasing order of
\* their first values, in the signed order for a signed type and the unsigned
\* order otherwise, and a run starts more than one above the end of the run
\* before it; one member gives one run of one, and -1 and 0 of a signed type
\* are in one run.
C26_RunsOrdered ==
    pc = "split" =>
        LET runs == gen.runs
            last(k) == runs[k][Len(runs[k])].value
        IN  /\ Len(runs) >= 1
            /\ \A k \in 1..Len(runs) : Len(runs[k]) >= 1
            /\ \A k \in 1..(Len(runs) - 1) :
                  /\ LessT(gen.kind, runs[k][1].value, runs[k + 1][1].value)
                  /\ LessT(gen.kind, last(k), Add64(last(k), One64))
                  /\ LessT(gen.kind, Add64(last(k), One64), runs[k + 1][1].value)
            /\ Cardinality(InputValues) = 1 => Len(runs) = 1 /\ Len(runs[1]) = 1
            /\ (IsSigned(gen.kind) /\ {I64(-1), Zero64} \subseteq InputValues) =>
                  \E k \in 1..Len(runs) : \E j \in 1..(Len(runs[k]) - 1) :
                      runs[k][j].value = I64(-1) /\ runs[k][j + 1].value = Zero64

\* C26: a signed list declared with 0 before -1 that splits into a run with
\* -1 and 0 and a later run.
C26_Witness ==
    /\ pc = "split"
    /\ IsSigned(gen.kind)
    /\ Len(gen.runs) >= 2
    /\ \E j \in 1..(Len(gen.runs[1]) - 1) :
          gen.runs[1][j].value = I64(-1) /\ gen.runs[1][j + 1].value = Zero64
    /\ LET values == Collected
       IN  \E a, b \in 1..Len(values) :
              a < b /\ values[a].value = Zero64 /\ values[b].value = I64(-1)


\* b is a with something appended, all of it printed for the type t.
AppendedFor(a, b, t) ==
    /\ Len(b) >= Len(a)
    /\ SubSeq(b, 1, Len(a)) = a
    /\ \A i \in (Len(a) + 1)..Len(b) : b[i].type = t

\* C27: generate runs for the requested types one after the other in their
\* order, a step of it only appends to the output and to the test output,
\* and what it collects for a type is what the files declare for that type,
\* with nothing of the pass before it.
C27_SequentialAppendOnly ==
    [][pc \notin {"start", "write", "writeTest"} =>
          /\ AppendedFor(buf, buf', types[cur])
          /\ AppendedFor(tbuf, tbuf', types[cur])
          /\ cur' \in {cur, cur + 1}
          /\ cur' = cur + 1 => pc = "buildTests" /\ pc' = "collect"
          /\ (pc = "buildTests" /\ pc' = "write") => cur = Len(types)
          /\ pc = "collect" => Flatten(fvalues') = ValuesOf(types[cur])]_vars

\* C27: generate runs for a second type that is not the first, after it has
\* collected constants for the first, and collects constants again.
C27_Witness ==
    /\ pc = "buildTests"
    /\ cur = 2
    /\ types[1] # types[2]
    /\ Flatten(fvalues) # <<>>
    /\ TypesIn(buf) = {types[1], types[2]}


\* The constants the files declare, each with its own type.
DeclaredConstants ==
    UNION {UNION {UNION {{files[f][d][i].names[j] : j \in 1..Len(files[f][d][i].names)} :
                         i \in 1..Len(files[f][d])} :
                  d \in 1..Len(files[f])} :
           f \in 1..Len(files)}

\* C28: every constant genDecl collects for the type T is declared with the
\* type T.
C28_CollectedHaveType ==
    pc = "collected" =>
        LET values == Flatten(fvalues)
        IN  \A i \in 1..Len(values) :
               \A c \in DeclaredConstants :
                  c.name = values[i].originalName => c.type = TypeName


\* C29: for an enum with one run, the bound of the generated range check,
\* T(len(_T_index)-1), the length of the run, is a value of the underlying
\* type of T.
C29_BoundRepresentable ==
    (pc = "generated" /\ gen.enc.strategy = "OneRun") =>
        Representable(gen, Len(gen.runs[1]))


\* C30: the test file is written to a path that is not the path of the
\* generated source file, and without -output the two files are
\* <type>_string.go and <type>_string_test.go.
C30_TestPathDiffers ==
    pc = "written" =>
        /\ Len(out) = 2
        /\ out[1].name # out[2].name
        /\ output = <<>> =>
              /\ out[1].name = <<ToLower(types[1]), "_string.go">>
              /\ out[2].name = <<ToLower(types[1]), "_string_test.go">>

=============================================================================
